---- MODULE Spec2Model ----
(***************************************************************************)
(* Model of the /answer pipeline of the greenify service:                  *)
(*   service/app.py            answer()                                    *)
(*   service/gemini_client.py  GeminiClient                                *)
(*                                                                         *)
(* Text is modelled as a tuple of one-character strings so that            *)
(* str.lower(), str.strip() and the `in` substring test are computed.      *)
(* A JSON value is a record [t, n, s]:                                     *)
(*   t = "null" | "bool" | "int" | "bigint" | "float" | "nan" | "inf"      *)
(*       | "str" | "missing"                                               *)
(*   n = the number: an int in units, a float in tenths (0.7 is n = 7),    *)
(*       the sign of an infinity                                           *)
(*   s = the characters of a str                                           *)
(* "bigint" is a Python int too large for a float (above 1.8e308),         *)
(* "missing" is the absence of a key in a dict.  A list is [t, items], a   *)
(* dict is a record of its keys with t = "dict".                           *)
(***************************************************************************)
EXTENDS Integers, Sequences, FiniteSets, TLC

VARIABLES pc, data, image, raised, response, status, body, calls,
          stages, constructions, client, plant, validated, error, handled,
          plants_data, plant_names, users_given, users_data, normalized_users

vars == <<pc, data, image, raised, response, status, body, calls,
          stages, constructions, client, plant, validated, error, handled,
          plants_data, plant_names, users_given, users_data, normalized_users>>

-----------------------------------------------------------------------------
(* Values *)

Missing == [t |-> "missing", n |-> 0, s |-> <<>>]
Null == [t |-> "null", n |-> 0, s |-> <<>>]
JBool(b) == [t |-> "bool", n |-> IF b THEN 1 ELSE 0, s |-> <<>>]
JInt(i) == [t |-> "int", n |-> i, s |-> <<>>]
JBigInt == [t |-> "bigint", n |-> 1, s |-> <<>>]
JFloat(tenths) == [t |-> "float", n |-> tenths, s |-> <<>>]
NaN == [t |-> "nan", n |-> 0, s |-> <<>>]
Inf(sign) == [t |-> "inf", n |-> sign, s |-> <<>>]
JStr(chars) == [t |-> "str", n |-> 0, s |-> chars]
Array(items) == [t |-> "array", items |-> items]

\* isinstance(v, str), isinstance(v, dict), isinstance(v, list)
isinstance_str(v) == v.t = "str"
isinstance_dict(v) == v.t = "dict"
isinstance_list(v) == v.t = "array"

\* Python truthiness, as used by `not plant[field]`.
Truthy(v) ==
    CASE v.t \in {"null", "missing"} -> FALSE
      [] v.t \in {"bool", "int", "float"} -> v.n # 0
      [] v.t = "str" -> v.s # <<>>
      [] v.t = "array" -> v.items # <<>>
      [] OTHER -> TRUE

-----------------------------------------------------------------------------
(* Strings *)

Whitespace == {" ", "\t", "\n"}

Upper == <<"A","B","C","D","E","F","G","H","I","J","K","L","M",
           "N","O","P","Q","R","S","T","U","V","W","X","Y","Z">>
LowerCase == <<"a","b","c","d","e","f","g","h","i","j","k","l","m",
               "n","o","p","q","r","s","t","u","v","w","x","y","z">>

lower_char(c) ==
    IF \E i \in 1..Len(Upper) : Upper[i] = c
    THEN LowerCase[CHOOSE i \in 1..Len(Upper) : Upper[i] = c]
    ELSE c

\* str.lower()
lower(s) == [i \in 1..Len(s) |-> lower_char(s[i])]

\* `term in s`
Contains(s, term) ==
    \E i \in 0..(Len(s) - Len(term)) : SubSeq(s, i + 1, i + Len(term)) = term

\* any(term in s for term in terms)
any_in(s, terms) == \E term \in terms : Contains(s, term)

\* s.strip()
RECURSIVE lstrip(_)
lstrip(s) == IF s # <<>> /\ Head(s) \in Whitespace THEN lstrip(Tail(s)) ELSE s
RECURSIVE rstrip(_)
rstrip(s) ==
    IF s # <<>> /\ s[Len(s)] \in Whitespace THEN rstrip(SubSeq(s, 1, Len(s) - 1)) ELSE s
strip(s) == rstrip(lstrip(s))

-----------------------------------------------------------------------------
(* float() *)

Digits == <<"0","1","2","3","4","5","6","7","8","9">>
IsDigit(c) == \E i \in 1..10 : Digits[i] = c
DigitVal(c) == (CHOOSE i \in 1..10 : Digits[i] = c) - 1

RECURSIVE AllDigits(_)
AllDigits(s) == s = <<>> \/ (IsDigit(Head(s)) /\ AllDigits(Tail(s)))

RECURSIVE DecimalValue(_, _)
DecimalValue(s, acc) ==
    IF s = <<>> THEN acc ELSE DecimalValue(Tail(s), acc * 10 + DigitVal(Head(s)))

Ok(v) == [ok |-> TRUE, v |-> v, exc |-> "none"]
Err(exc) == [ok |-> FALSE, v |-> Null, exc |-> exc]

\* The unsigned decimal "ddd", "ddd.", "ddd.ddd" or ".ddd" in tenths; digits
\* after the first decimal place are dropped and exponents are not read
\* (the strings of the model have neither).
UnsignedTenths(s) ==
    LET dot == IF \E i \in 1..Len(s) : s[i] = "."
               THEN CHOOSE i \in 1..Len(s) : s[i] = "." ELSE 0
        whole == IF dot = 0 THEN s ELSE SubSeq(s, 1, dot - 1)
        frac == IF dot = 0 THEN <<>> ELSE SubSeq(s, dot + 1, Len(s))
    IN IF (whole = <<>> /\ frac = <<>>) \/ ~AllDigits(whole) \/ ~AllDigits(frac)
       THEN Err("ValueError")
       ELSE Ok(DecimalValue(whole, 0) * 10 + (IF frac = <<>> THEN 0 ELSE DigitVal(frac[1])))

\* float(str): surrounding whitespace stripped, optional sign, then nan, inf,
\* infinity (any case) or a decimal number.
float_str(chars) ==
    LET t == lower(strip(chars))
        neg == t # <<>> /\ Head(t) = "-"
        signed == t # <<>> /\ Head(t) \in {"-", "+"}
        u == IF signed THEN Tail(t) ELSE t
        sign == IF neg THEN -1 ELSE 1
    IN CASE u = <<"n","a","n">> -> Ok(NaN)
         [] u \in {<<"i","n","f">>, <<"i","n","f","i","n","i","t","y">>} -> Ok(Inf(sign))
         [] OTHER -> LET r == UnsignedTenths(u)
                     IN IF r.ok THEN Ok(JFloat(sign * r.v)) ELSE r

\* float(v)
float(v) ==
    CASE v.t \in {"bool", "int"} -> Ok(JFloat(10 * v.n))
      [] v.t = "bigint" -> Err("OverflowError")
      [] v.t \in {"float", "nan", "inf"} -> Ok(v)
      [] v.t = "str" -> float_str(v.s)
      [] OTHER -> Err("TypeError")

\* The range test with the upper bound excluded: confidence >= 1.0.
out_of_range_exclusive(f) ==
    CASE f.t = "float" -> f.n < 0 \/ f.n >= 10
      [] f.t = "inf" -> TRUE
      [] OTHER -> FALSE

\* confidence < 0.0 or confidence > 1.0, on a float (false for nan on both sides)
out_of_range(f) ==
    CASE f.t = "float" -> f.n < 0 \/ f.n > 10
      [] f.t = "inf" -> TRUE
      [] OTHER -> FALSE

-----------------------------------------------------------------------------
(* GeminiClient._get_fallback_plants *)

Plant(name, img, superimposed, description, care_instructions, care_tips, ar, confidence) ==
    [t |-> "dict", name |-> name, image |-> img, superimposed_image |-> superimposed,
     description |-> description, care_instructions |-> care_instructions,
     care_tips |-> care_tips, AR_model |-> ar, placement_confidence |-> confidence]

SpiderPlant ==
    Plant(JStr(<<"S","p","i","d","e","r"," ","P","l","a","n","t">>), JStr(<<>>), JStr(<<>>),
          JStr(<<"H","a","r","d","y"," ","i","n","d","o","o","r"," ","p","l","a","n","t"," ","t","h","a","t"," ","a","d","a","p","t","s"," ","w","e","l","l"," ","t","o"," ","v","a","r","i","o","u","s"," ","l","i","g","h","t","i","n","g"," ","c","o","n","d","i","t","i","o","n","s"," ","a","n","d"," ","i","s"," ","e","a","s","y"," ","t","o"," ","c","a","r","e"," ","f","o","r",".">>),
          JStr(<<"W","a","t","e","r"," ","w","h","e","n"," ","s","o","i","l"," ","f","e","e","l","s"," ","d","r","y",","," ","p","r","e","f","e","r","s"," ","b","r","i","g","h","t"," ","i","n","d","i","r","e","c","t"," ","l","i","g","h","t",","," ","w","e","l","l","-","d","r","a","i","n","i","n","g"," ","s","o","i","l",".">>),
          JStr(<<"R","e","m","o","v","e"," ","b","r","o","w","n"," ","t","i","p","s",","," ","p","r","o","p","a","g","a","t","e"," ","p","l","a","n","t","l","e","t","s"," ","f","o","r"," ","n","e","w"," ","p","l","a","n","t","s",","," ","r","o","t","a","t","e"," ","o","c","c","a","s","i","o","n","a","l","l","y"," ","f","o","r"," ","e","v","e","n"," ","g","r","o","w","t","h",".">>),
          JStr(<<>>), JFloat(7))

Pothos ==
    Plant(JStr(<<"P","o","t","h","o","s">>), JStr(<<>>), JStr(<<>>),
          JStr(<<"V","e","r","s","a","t","i","l","e"," ","t","r","a","i","l","i","n","g"," ","p","l","a","n","t"," ","t","h","a","t"," ","t","h","r","i","v","e","s"," ","i","n"," ","l","o","w"," ","t","o"," ","m","e","d","i","u","m"," ","l","i","g","h","t"," ","a","n","d"," ","i","s"," ","v","e","r","y"," ","f","o","r","g","i","v","i","n","g",".">>),
          JStr(<<"W","a","t","e","r"," ","w","h","e","n"," ","t","o","p"," ","i","n","c","h"," ","o","f"," ","s","o","i","l"," ","i","s"," ","d","r","y",","," ","t","o","l","e","r","a","t","e","s"," ","l","o","w"," ","l","i","g","h","t",","," ","s","t","a","n","d","a","r","d"," ","p","o","t","t","i","n","g"," ","m","i","x",".">>),
          JStr(<<"T","r","i","m"," ","t","o"," ","e","n","c","o","u","r","a","g","e"," ","b","u","s","h","i","e","r"," ","g","r","o","w","t","h",","," ","c","a","n"," ","g","r","o","w"," ","i","n"," ","w","a","t","e","r"," ","o","r"," ","s","o","i","l",","," ","w","i","p","e"," ","l","e","a","v","e","s"," ","o","c","c","a","s","i","o","n","a","l","l","y",".">>),
          JStr(<<>>), JFloat(8))

SnakePlant ==
    Plant(JStr(<<"S","n","a","k","e"," ","P","l","a","n","t">>), JStr(<<>>), JStr(<<>>),
          JStr(<<"L","o","w","-","m","a","i","n","t","e","n","a","n","c","e"," ","s","u","c","c","u","l","e","n","t"," ","t","h","a","t"," ","t","o","l","e","r","a","t","e","s"," ","n","e","g","l","e","c","t"," ","a","n","d"," ","v","a","r","i","o","u","s"," ","l","i","g","h","t","i","n","g"," ","c","o","n","d","i","t","i","o","n","s",".">>),
          JStr(<<"W","a","t","e","r"," ","s","p","a","r","i","n","g","l","y",","," ","a","l","l","o","w"," ","s","o","i","l"," ","t","o"," ","d","r","y"," ","c","o","m","p","l","e","t","e","l","y"," ","b","e","t","w","e","e","n"," ","w","a","t","e","r","i","n","g","s",","," ","t","o","l","e","r","a","t","e","s"," ","l","o","w"," ","l","i","g","h","t",".">>),
          JStr(<<"A","v","o","i","d"," ","o","v","e","r","w","a","t","e","r","i","n","g",","," ","c","l","e","a","n"," ","l","e","a","v","e","s"," ","w","i","t","h"," ","d","a","m","p"," ","c","l","o","t","h",","," ","d","i","v","i","d","e"," ","t","o"," ","p","r","o","p","a","g","a","t","e"," ","n","e","w"," ","p","l","a","n","t","s",".">>),
          JStr(<<>>), JFloat(6))

\* The list of the legacy _create_plant_recommendation_fallback (lines
\* 1089-1113): one generic entry.
_plant_recommendation_fallback_plants ==
    <<Plant(JStr(<<"G","e","n","e","r","a","l"," ","P","l","a","n","t"," ","R","e","c","o","m","m","e","n","d","a","t","i","o","n">>), JStr(<<>>), JStr(<<>>),
            JStr(<<"U","n","a","b","l","e"," ","t","o"," ","g","e","n","e","r","a","t","e"," ","s","p","e","c","i","f","i","c"," ","p","l","a","n","t"," ","r","e","c","o","m","m","e","n","d","a","t","i","o","n","s"," ","a","t"," ","t","h","i","s"," ","t","i","m","e","."," ","P","l","e","a","s","e"," ","c","o","n","s","u","l","t"," ","l","o","c","a","l"," ","g","a","r","d","e","n","i","n","g"," ","r","e","s","o","u","r","c","e","s",".">>),
            JStr(<<"F","o","l","l","o","w"," ","g","e","n","e","r","a","l"," ","p","l","a","n","t"," ","c","a","r","e"," ","g","u","i","d","e","l","i","n","e","s"," ","f","o","r"," ","y","o","u","r"," ","c","l","i","m","a","t","e"," ","z","o","n","e",".">>),
            JStr(<<"M","o","n","i","t","o","r"," ","p","l","a","n","t"," ","h","e","a","l","t","h"," ","a","n","d"," ","a","d","j","u","s","t"," ","c","a","r","e"," ","b","a","s","e","d"," ","o","n"," ","e","n","v","i","r","o","n","m","e","n","t","a","l"," ","c","o","n","d","i","t","i","o","n","s",".">>),
            JStr(<<>>), JFloat(5))>>

_get_fallback_plants == <<SpiderPlant, Pothos, SnakePlant>>

-----------------------------------------------------------------------------
(* GeminiClient._validate_comprehensive_plant_data *)

required_fields ==
    [name |-> <<"U","n","k","n","o","w","n"," ","P","l","a","n","t">>,
     description |-> <<"P","l","a","n","t"," ","i","n","f","o","r","m","a","t","i","o","n"," ","n","o","t"," ","a","v","a","i","l","a","b","l","e",".">>,
     care_instructions |-> <<"F","o","l","l","o","w"," ","g","e","n","e","r","a","l"," ","p","l","a","n","t"," ","c","a","r","e"," ","g","u","i","d","e","l","i","n","e","s",".">>,
     care_tips |-> <<"M","o","n","i","t","o","r"," ","p","l","a","n","t"," ","h","e","a","l","t","h"," ","a","n","d"," ","a","d","j","u","s","t"," ","c","a","r","e"," ","a","s"," ","n","e","e","d","e","d",".">>]

\* if field not in plant or not plant[field] or not isinstance(plant[field], str)
fix_required(v, default_value) ==
    IF v.t = "missing" \/ ~Truthy(v) \/ ~isinstance_str(v) THEN JStr(default_value) ELSE v

\* plant.setdefault(key, '')
setdefault(v) == IF v.t = "missing" THEN JStr(<<>>) ELSE v

\* if 'superimposed_image' not in plant or not isinstance(..., str)
fix_superimposed(v) == IF v.t = "missing" \/ ~isinstance_str(v) THEN JStr(<<>>) ELSE v

\* The placement_confidence block: the value stored, or the exception that
\* leaves the try (only ValueError and TypeError are caught).
fix_confidence(v) ==
    IF v.t = "missing" THEN Ok(JFloat(5))
    ELSE LET f == float(v)
         IN CASE f.ok /\ ~out_of_range(f.v) -> Ok(f.v)
              [] f.ok /\ out_of_range(f.v) -> Ok(JFloat(5))
              [] f.exc \in {"ValueError", "TypeError"} -> Ok(JFloat(5))
              [] OTHER -> Err(f.exc)

\* if not plant[field].strip(): plant[field] = required_fields[field]
fix_blank(v, default_value) == IF strip(v.s) = <<>> THEN JStr(default_value) ELSE v

\* The plant after the call (it is changed in place) and whether the call raised.
_validate_comprehensive_plant_data(p) ==
    IF ~isinstance_dict(p) THEN [raised |-> TRUE, plant |-> p]
    ELSE
      LET p1 == [p EXCEPT
                   !.name = fix_required(@, required_fields.name),
                   !.description = fix_required(@, required_fields.description),
                   !.care_instructions = fix_required(@, required_fields.care_instructions),
                   !.care_tips = fix_required(@, required_fields.care_tips)]
          p2 == [p1 EXCEPT !.image = setdefault(@), !.AR_model = setdefault(@)]
          p3 == [p2 EXCEPT !.superimposed_image = fix_superimposed(@)]
          c == fix_confidence(p3.placement_confidence)
      IN IF ~c.ok THEN [raised |-> TRUE, plant |-> p3]
         ELSE
           LET p4 == [p3 EXCEPT !.placement_confidence = c.v]
               p5 == [p4 EXCEPT
                        !.name = fix_blank(@, required_fields.name),
                        !.description = fix_blank(@, required_fields.description),
                        !.care_instructions = fix_blank(@, required_fields.care_instructions),
                        !.care_tips = fix_blank(@, required_fields.care_tips)]
           IN [raised |-> FALSE, plant |-> p5]

-----------------------------------------------------------------------------
(* GeminiClient._create_comprehensive_fallback_response *)

\* A response body: the keys description, plants and error of the dict that
\* is returned (error is Missing when the dict has no such key).
Body(description, plants, err) == [description |-> description, plants |-> plants, error |-> err]

plant_words == {<<"p","l","a","n","t">>, <<"g","r","o","w">>, <<"s","u","i","t","a","b","l","e">>, <<"r","e","c","o","m","m","e","n","d">>}

\* The fallback of the legacy _create_fallback_response (lines 867-891): one
\* generic entry instead of the three fallback plants.
_create_fallback_response(response_text) ==
    Body(JStr(<<"A","n","a","l","y","s","i","s"," ","c","o","m","p","l","e","t","e","d",","," ","b","u","t"," ","d","e","t","a","i","l","e","d"," ","p","a","r","s","i","n","g"," ","f","a","i","l","e","d","."," ","P","l","e","a","s","e"," ","t","r","y"," ","a","g","a","i","n",".">>),
         <<Plant(JStr(<<"G","e","n","e","r","a","l"," ","P","l","a","n","t"," ","R","e","c","o","m","m","e","n","d","a","t","i","o","n">>), JStr(<<>>), JStr(<<>>),
                 JStr(response_text),
                 JStr(<<"P","l","e","a","s","e"," ","c","o","n","s","u","l","t"," ","g","a","r","d","e","n","i","n","g"," ","r","e","s","o","u","r","c","e","s"," ","f","o","r"," ","s","p","e","c","i","f","i","c"," ","c","a","r","e"," ","i","n","s","t","r","u","c","t","i","o","n","s",".">>),
                 JStr(<<"M","o","n","i","t","o","r"," ","p","l","a","n","t"," ","h","e","a","l","t","h"," ","a","n","d"," ","a","d","j","u","s","t"," ","c","a","r","e"," ","b","a","s","e","d"," ","o","n"," ","e","n","v","i","r","o","n","m","e","n","t","a","l"," ","c","o","n","d","i","t","i","o","n","s",".">>),
                 JStr(<<>>), JFloat(5))>>,
         Missing)

_create_comprehensive_fallback_response(response_text) ==
    LET description ==
          IF response_text # <<>> /\ Len(strip(response_text)) > 0
             /\ any_in(lower(response_text), plant_words)
          THEN <<"L","o","c","a","t","i","o","n"," ","a","n","a","l","y","s","i","s"," ","c","o","m","p","l","e","t","e","d"," ","w","i","t","h"," ","s","o","m","e"," ","d","e","t","a","i","l","s"," ","a","v","a","i","l","a","b","l","e","."," ","B","a","s","i","c"," ","p","l","a","n","t"," ","r","e","c","o","m","m","e","n","d","a","t","i","o","n","s"," ","p","r","o","v","i","d","e","d",".">>
          ELSE <<"L","o","c","a","t","i","o","n"," ","a","n","a","l","y","s","i","s"," ","c","o","m","p","l","e","t","e","d",","," ","b","u","t"," ","d","e","t","a","i","l","e","d"," ","p","a","r","s","i","n","g"," ","f","a","i","l","e","d","."," ","T","h","e"," ","a","r","e","a"," ","a","p","p","e","a","r","s"," ","s","u","i","t","a","b","l","e"," ","f","o","r"," ","p","l","a","n","t"," ","g","r","o","w","t","h"," ","b","a","s","e","d"," ","o","n"," ","a","v","a","i","l","a","b","l","e"," ","i","n","f","o","r","m","a","t","i","o","n",".">>
    IN Body(JStr(description), _get_fallback_plants, Missing)

-----------------------------------------------------------------------------
(* GeminiClient._process_comprehensive_response *)

\* The text of the first part: text that is not JSON is its characters, text
\* that is JSON is the document it encodes (json.loads is the library's).
RawText(chars) == [json |-> FALSE, raw |-> chars, doc |-> Null]
JsonText(doc) == [json |-> TRUE, raw |-> <<>>, doc |-> doc]

\* not response_text or not response_text.strip()
blank_text(text) == ~text.json /\ strip(text.raw) = <<>>

\* json.loads(response_text)
json_loads(text) == IF text.json THEN Ok(text.doc) ELSE Err("JSONDecodeError")

\* A parsed document that is a dict: its keys description, plants and error.
Doc(description, plants, err) ==
    [t |-> "dict", description |-> description, plants |-> plants, error |-> err]

\* The loop over plants: the entries whose validation did not raise, as validated.
RECURSIVE validated_plants(_)
validated_plants(plants) ==
    IF plants = <<>> THEN <<>>
    ELSE LET r == _validate_comprehensive_plant_data(Head(plants))
         IN (IF r.raised THEN <<>> ELSE <<r.plant>>) \o validated_plants(Tail(plants))

\* process_parsed without the substitution of lines 692-694: a plants list
\* with no valid entry is returned empty.
process_parsed_no_substitute(parsed_response) ==
    IF ~isinstance_dict(parsed_response)
    THEN _create_comprehensive_fallback_response(<<"I","n","v","a","l","i","d"," ","r","e","s","p","o","n","s","e"," ","f","o","r","m","a","t">>)
    ELSE
      LET description ==
            IF parsed_response.description.t = "missing"
            THEN JStr(<<"L","o","c","a","t","i","o","n"," ","a","n","a","l","y","s","i","s"," ","c","o","m","p","l","e","t","e","d"," ","w","i","t","h"," ","l","i","m","i","t","e","d"," ","d","e","t","a","i","l","s"," ","a","v","a","i","l","a","b","l","e",".">>)
            ELSE parsed_response.description
          plants ==
            IF parsed_response.plants.t = "missing"
            THEN Array(_get_fallback_plants)
            ELSE parsed_response.plants
          final ==
            IF ~isinstance_list(plants) THEN _get_fallback_plants
            ELSE validated_plants(plants.items)
      IN Body(description, final, parsed_response.error)

\* process_parsed without the defaults of lines 667-673: a missing
\* description stays missing and missing plants are an empty list.
process_parsed_no_default(parsed_response) ==
    IF ~isinstance_dict(parsed_response)
    THEN _create_comprehensive_fallback_response(<<"I","n","v","a","l","i","d"," ","r","e","s","p","o","n","s","e"," ","f","o","r","m","a","t">>)
    ELSE
      LET description == parsed_response.description
          plants ==
            IF parsed_response.plants.t = "missing"
            THEN Array(<<>>)
            ELSE parsed_response.plants
          final ==
            IF ~isinstance_list(plants) THEN _get_fallback_plants
            ELSE validated_plants(plants.items)
      IN Body(description, final, parsed_response.error)

\* Lines 661-700: the parsed value to the dict returned.
process_parsed(parsed_response) ==
    IF ~isinstance_dict(parsed_response)
    THEN _create_comprehensive_fallback_response(<<"I","n","v","a","l","i","d"," ","r","e","s","p","o","n","s","e"," ","f","o","r","m","a","t">>)
    ELSE
      LET description ==
            IF parsed_response.description.t = "missing"
            THEN JStr(<<"L","o","c","a","t","i","o","n"," ","a","n","a","l","y","s","i","s"," ","c","o","m","p","l","e","t","e","d"," ","w","i","t","h"," ","l","i","m","i","t","e","d"," ","d","e","t","a","i","l","s"," ","a","v","a","i","l","a","b","l","e",".">>)
            ELSE parsed_response.description
          plants ==
            IF parsed_response.plants.t = "missing"
            THEN Array(_get_fallback_plants)
            ELSE parsed_response.plants
          final ==
            IF ~isinstance_list(plants) THEN _get_fallback_plants
            ELSE LET validated_ == validated_plants(plants.items)
                 IN IF validated_ = <<>> THEN _get_fallback_plants ELSE validated_
      IN Body(description, final, parsed_response.error)

\* The response object of generate_content, by the first check it fails:
\*   "null"          not response
\*   "no_candidates" no candidates attribute, or an empty list
\*   "no_parts"      candidates[0].content is None, or has no parts
\*   "no_text"       parts[0] has no text attribute
\*   "text"          parts[0].text is a str
Response(shape, text) == [shape |-> shape, text |-> text]

_process_comprehensive_response(r) ==
    CASE r.shape = "null" -> _create_comprehensive_fallback_response(<<"N","o"," ","r","e","s","p","o","n","s","e"," ","r","e","c","e","i","v","e","d">>)
      [] r.shape = "no_candidates" ->
           _create_comprehensive_fallback_response(<<"I","n","v","a","l","i","d"," ","r","e","s","p","o","n","s","e"," ","s","t","r","u","c","t","u","r","e">>)
      [] r.shape = "no_parts" ->
           _create_comprehensive_fallback_response(<<"E","m","p","t","y"," ","r","e","s","p","o","n","s","e"," ","c","o","n","t","e","n","t">>)
      [] r.shape = "no_text" ->
           _create_comprehensive_fallback_response(<<"F","a","i","l","e","d"," ","t","o"," ","e","x","t","r","a","c","t"," ","r","e","s","p","o","n","s","e">>)
      [] OTHER ->
           IF blank_text(r.text)
           THEN _create_comprehensive_fallback_response(<<"E","m","p","t","y"," ","r","e","s","p","o","n","s","e"," ","t","e","x","t">>)
           ELSE LET parsed == json_loads(r.text)
                IN IF ~parsed.ok
                   THEN _create_comprehensive_fallback_response(r.text.raw)
                   ELSE process_parsed(parsed.v)

-----------------------------------------------------------------------------
(* GeminiClient.handle_api_errors *)

auth_terms == {<<"a","u","t","h">>, <<"c","r","e","d","e","n","t","i","a","l">>, <<"a","p","i"," ","k","e","y">>, <<"p","e","r","m","i","s","s","i","o","n">>}
quota_terms == {<<"q","u","o","t","a">>, <<"r","a","t","e"," ","l","i","m","i","t">>, <<"t","o","o"," ","m","a","n","y"," ","r","e","q","u","e","s","t","s">>, <<"l","i","m","i","t"," ","e","x","c","e","e","d","e","d">>}
network_terms == {<<"n","e","t","w","o","r","k">>, <<"c","o","n","n","e","c","t","i","o","n">>, <<"t","i","m","e","o","u","t">>, <<"u","n","r","e","a","c","h","a","b","l","e">>, <<"d","n","s">>}
format_terms == {<<"j","s","o","n">>, <<"p","a","r","s","e">>, <<"f","o","r","m","a","t">>, <<"d","e","c","o","d","e">>, <<"m","a","l","f","o","r","m","e","d">>}
image_terms == {<<"i","m","a","g","e">>, <<"i","n","v","a","l","i","d"," ","f","o","r","m","a","t">>, <<"d","e","c","o","d","e">>, <<"c","o","r","r","u","p","t">>}
unavail_terms == {<<"u","n","a","v","a","i","l","a","b","l","e">>, <<"n","o","t"," ","f","o","u","n","d">>, <<"4","0","4">>, <<"5","0","3">>, <<"s","e","r","v","i","c","e">>}

AuthResponse ==
    Body(JStr(<<"U","n","a","b","l","e"," ","t","o"," ","a","u","t","h","e","n","t","i","c","a","t","e"," ","w","i","t","h"," ","p","l","a","n","t"," ","a","n","a","l","y","s","i","s"," ","s","e","r","v","i","c","e","."," ","P","l","e","a","s","e"," ","t","r","y"," ","a","g","a","i","n"," ","l","a","t","e","r",".">>),
         <<>>,
         JStr(<<"A","u","t","h","e","n","t","i","c","a","t","i","o","n"," ","f","a","i","l","e","d","."," ","P","l","e","a","s","e"," ","c","o","n","t","a","c","t"," ","s","u","p","p","o","r","t"," ","i","f"," ","t","h","i","s"," ","p","e","r","s","i","s","t","s",".">>))
QuotaResponse ==
    Body(JStr(<<"P","l","a","n","t"," ","a","n","a","l","y","s","i","s"," ","s","e","r","v","i","c","e"," ","i","s"," ","c","u","r","r","e","n","t","l","y"," ","e","x","p","e","r","i","e","n","c","i","n","g"," ","h","i","g","h"," ","d","e","m","a","n","d","."," ","P","l","e","a","s","e"," ","t","r","y"," ","a","g","a","i","n"," ","i","n"," ","a"," ","f","e","w"," ","m","i","n","u","t","e","s",".">>),
         _get_fallback_plants,
         JStr(<<"S","e","r","v","i","c","e"," ","t","e","m","p","o","r","a","r","i","l","y"," ","u","n","a","v","a","i","l","a","b","l","e"," ","d","u","e"," ","t","o"," ","h","i","g","h"," ","d","e","m","a","n","d","."," ","P","l","e","a","s","e"," ","t","r","y"," ","a","g","a","i","n"," ","s","h","o","r","t","l","y",".">>))
NetworkResponse ==
    Body(JStr(<<"U","n","a","b","l","e"," ","t","o"," ","c","o","n","n","e","c","t"," ","t","o"," ","p","l","a","n","t"," ","a","n","a","l","y","s","i","s"," ","s","e","r","v","i","c","e","."," ","P","l","e","a","s","e"," ","c","h","e","c","k"," ","y","o","u","r"," ","i","n","t","e","r","n","e","t"," ","c","o","n","n","e","c","t","i","o","n"," ","a","n","d"," ","t","r","y"," ","a","g","a","i","n",".">>),
         _get_fallback_plants,
         JStr(<<"N","e","t","w","o","r","k"," ","c","o","n","n","e","c","t","i","o","n"," ","i","s","s","u","e","."," ","P","l","e","a","s","e"," ","c","h","e","c","k"," ","y","o","u","r"," ","i","n","t","e","r","n","e","t"," ","c","o","n","n","e","c","t","i","o","n"," ","a","n","d"," ","t","r","y"," ","a","g","a","i","n",".">>))
MalformedResponse ==
    Body(JStr(<<"P","l","a","n","t"," ","a","n","a","l","y","s","i","s"," ","c","o","m","p","l","e","t","e","d",","," ","b","u","t"," ","r","e","s","p","o","n","s","e"," ","f","o","r","m","a","t","t","i","n","g"," ","f","a","i","l","e","d","."," ","B","a","s","i","c"," ","r","e","c","o","m","m","e","n","d","a","t","i","o","n","s"," ","p","r","o","v","i","d","e","d",".">>),
         _get_fallback_plants,
         JStr(<<"R","e","s","p","o","n","s","e"," ","p","r","o","c","e","s","s","i","n","g"," ","i","s","s","u","e","."," ","B","a","s","i","c"," ","p","l","a","n","t"," ","s","u","g","g","e","s","t","i","o","n","s"," ","p","r","o","v","i","d","e","d",".">>))
ImageResponse ==
    Body(JStr(<<"U","n","a","b","l","e"," ","t","o"," ","p","r","o","c","e","s","s"," ","t","h","e"," ","u","p","l","o","a","d","e","d"," ","i","m","a","g","e","."," ","P","l","e","a","s","e"," ","t","r","y"," ","w","i","t","h"," ","a"," ","d","i","f","f","e","r","e","n","t"," ","i","m","a","g","e",".">>),
         <<>>,
         JStr(<<"I","m","a","g","e"," ","p","r","o","c","e","s","s","i","n","g"," ","f","a","i","l","e","d","."," ","P","l","e","a","s","e"," ","t","r","y"," ","u","p","l","o","a","d","i","n","g"," ","a"," ","d","i","f","f","e","r","e","n","t"," ","i","m","a","g","e",".">>))
UnavailableResponse ==
    Body(JStr(<<"P","l","a","n","t"," ","a","n","a","l","y","s","i","s"," ","s","e","r","v","i","c","e"," ","i","s"," ","t","e","m","p","o","r","a","r","i","l","y"," ","u","n","a","v","a","i","l","a","b","l","e","."," ","B","a","s","i","c"," ","r","e","c","o","m","m","e","n","d","a","t","i","o","n","s"," ","p","r","o","v","i","d","e","d",".">>),
         _get_fallback_plants,
         JStr(<<"A","n","a","l","y","s","i","s"," ","s","e","r","v","i","c","e"," ","t","e","m","p","o","r","a","r","i","l","y"," ","u","n","a","v","a","i","l","a","b","l","e","."," ","P","l","e","a","s","e"," ","t","r","y"," ","a","g","a","i","n"," ","l","a","t","e","r",".">>))
\* The General content without its error key.
GeneralResponseWithoutError ==
    Body(JStr(<<"P","l","a","n","t"," ","a","n","a","l","y","s","i","s"," ","e","n","c","o","u","n","t","e","r","e","d"," ","a","n"," ","i","s","s","u","e",","," ","b","u","t"," ","b","a","s","i","c"," ","r","e","c","o","m","m","e","n","d","a","t","i","o","n","s"," ","a","r","e"," ","a","v","a","i","l","a","b","l","e",".">>),
         _get_fallback_plants,
         Missing)
GeneralResponse ==
    Body(JStr(<<"P","l","a","n","t"," ","a","n","a","l","y","s","i","s"," ","e","n","c","o","u","n","t","e","r","e","d"," ","a","n"," ","i","s","s","u","e",","," ","b","u","t"," ","b","a","s","i","c"," ","r","e","c","o","m","m","e","n","d","a","t","i","o","n","s"," ","a","r","e"," ","a","v","a","i","l","a","b","l","e",".">>),
         _get_fallback_plants,
         JStr(<<"A","n","a","l","y","s","i","s"," ","s","e","r","v","i","c","e"," ","e","n","c","o","u","n","t","e","r","e","d"," ","a","n"," ","i","s","s","u","e","."," ","B","a","s","i","c"," ","p","l","a","n","t"," ","s","u","g","g","e","s","t","i","o","n","s"," ","p","r","o","v","i","d","e","d",".">>))

\* The chain with the image test moved before the format test.
handle_api_errors_image_first(error_message) ==
    LET error_lower == lower(error_message)
    IN IF any_in(error_lower, auth_terms) THEN AuthResponse
       ELSE IF any_in(error_lower, quota_terms) THEN QuotaResponse
       ELSE IF any_in(error_lower, network_terms) THEN NetworkResponse
       ELSE IF any_in(error_lower, image_terms) THEN ImageResponse
       ELSE IF any_in(error_lower, format_terms) THEN MalformedResponse
       ELSE IF any_in(error_lower, unavail_terms) THEN UnavailableResponse
       ELSE GeneralResponse

\* error_message is str(error); the chain of ifs returns at the first match.
handle_api_errors(error_message) ==
    LET error_lower == lower(error_message)
    IN IF any_in(error_lower, auth_terms) THEN AuthResponse
       ELSE IF any_in(error_lower, quota_terms) THEN QuotaResponse
       ELSE IF any_in(error_lower, network_terms) THEN NetworkResponse
       ELSE IF any_in(error_lower, format_terms) THEN MalformedResponse
       ELSE IF any_in(error_lower, image_terms) THEN ImageResponse
       ELSE IF any_in(error_lower, unavail_terms) THEN UnavailableResponse
       ELSE GeneralResponse

-----------------------------------------------------------------------------
(* GeminiAPIError, GeminiClient._prepare_image_for_api *)

\* original_error is None, or the str() of the exception wrapped.
GeminiAPIError(message, error_type) ==
    [message |-> message, error_type |-> error_type, original_error |-> Null]
NoError == GeminiAPIError(<<>>, "none")

\* The constructor called without its error_type, which defaults to
\* "general" (as at line 82).
GeminiAPIErrorUntyped(message, error_type, original_error) ==
    [message |-> message, error_type |-> "general", original_error |-> JStr(original_error)]

\* GeminiAPIError(message, error_type, original_error)
GeminiAPIErrorFrom(message, error_type, original_error) ==
    [message |-> message, error_type |-> error_type, original_error |-> JStr(original_error)]

\* The 10 MB limit of line 275, in MB.
MaxImageMB == 10

\* Decoded bytes: their length in MB (rounded up) and whether PIL can open
\* and verify them.
Bytes(mb, is_image) == [mb |-> mb, is_image |-> is_image]

\* base64.b64decode on the payloads of the model:
\*   "iVBORw0KGgo="  a PNG of 1 MB            "/9j/4AAQ"  a JPEG of 11 MB
\*   "aGVsbG8="      1 MB that is no image    "AAAA"      11 MB that is no image
\*   ""              no bytes
\*   anything else   binascii.Error
b64decode(payload) ==
    CASE payload = <<>> -> Ok(Bytes(0, FALSE))
      [] payload = <<"i","V","B","O","R","w","0","K","G","g","o","=">> -> Ok(Bytes(1, TRUE))
      [] payload = <<"/","9","j","/","4","A","A","Q">> -> Ok(Bytes(MaxImageMB + 1, TRUE))
      [] payload = <<"a","G","V","s","b","G","8","=">> -> Ok(Bytes(1, FALSE))
      [] payload = <<"A","A","A","A">> -> Ok(Bytes(MaxImageMB + 1, FALSE))
      [] OTHER -> Err("binascii.Error")

\* str() of the library's exceptions
IncorrectPadding == <<"I","n","c","o","r","r","e","c","t"," ","p","a","d","d","i","n","g">>
CannotIdentify == <<"c","a","n","n","o","t"," ","i","d","e","n","t","i","f","y"," ","i","m","a","g","e"," ","f","i","l","e"," ","<","_","i","o",".","B","y","t","e","s","I","O"," ","o","b","j","e","c","t"," ","a","t"," ","0","x","7","f","3","a",">">>

\* image_data.startswith(prefix)
startswith(s, prefix) == Len(s) >= Len(prefix) /\ SubSeq(s, 1, Len(prefix)) = prefix

\* image_data.split(','): the pieces between the commas
RECURSIVE split_comma(_, _)
split_comma(s, piece) ==
    IF s = <<>> THEN <<piece>>
    ELSE IF Head(s) = "," THEN <<piece>> \o split_comma(Tail(s), <<>>)
    ELSE split_comma(Tail(s), Append(piece, Head(s)))

\* The preparation without the size check of lines 274-276.
_prepare_image_for_api_any_size(image_data) ==
    IF ~Truthy(image_data) \/ ~isinstance_str(image_data)
    THEN [ok |-> FALSE, err |-> GeminiAPIError(<<"I","n","v","a","l","i","d"," ","i","m","a","g","e"," ","d","a","t","a"," ","p","r","o","v","i","d","e","d">>, "image")]
    ELSE
      LET is_url == startswith(image_data.s, <<"d","a","t","a",":","i","m","a","g","e">>)
          pieces == split_comma(image_data.s, <<>>)
      IN IF is_url /\ Len(pieces) < 2
         THEN [ok |-> FALSE, err |-> GeminiAPIError(<<"M","a","l","f","o","r","m","e","d"," ","d","a","t","a"," ","U","R","L"," ","f","o","r","m","a","t">>, "image")]
         ELSE
           LET payload == IF is_url THEN pieces[2] ELSE image_data.s
               image_bytes == b64decode(payload)
           IN CASE ~image_bytes.ok ->
                     [ok |-> FALSE,
                      err |-> GeminiAPIErrorFrom(<<"I","n","v","a","l","i","d"," ","b","a","s","e","6","4"," ","e","n","c","o","d","i","n","g",":"," ">> \o IncorrectPadding,
                                                 "image", IncorrectPadding)]
                [] image_bytes.ok /\ ~image_bytes.v.is_image ->
                     [ok |-> FALSE,
                      err |-> GeminiAPIErrorFrom(<<"I","n","v","a","l","i","d"," ","o","r"," ","c","o","r","r","u","p","t","e","d"," ","i","m","a","g","e"," ","f","o","r","m","a","t",":"," ">> \o CannotIdentify,
                                                 "image", CannotIdentify)]
                [] OTHER -> [ok |-> TRUE, err |-> NoError]

\* The bytes returned, or the GeminiAPIError raised (every exception leaves as
\* a GeminiAPIError of type "image").
_prepare_image_for_api(image_data) ==
    IF ~Truthy(image_data) \/ ~isinstance_str(image_data)
    THEN [ok |-> FALSE, err |-> GeminiAPIError(<<"I","n","v","a","l","i","d"," ","i","m","a","g","e"," ","d","a","t","a"," ","p","r","o","v","i","d","e","d">>, "image")]
    ELSE
      LET is_url == startswith(image_data.s, <<"d","a","t","a",":","i","m","a","g","e">>)
          pieces == split_comma(image_data.s, <<>>)
      IN IF is_url /\ Len(pieces) < 2
         THEN [ok |-> FALSE, err |-> GeminiAPIError(<<"M","a","l","f","o","r","m","e","d"," ","d","a","t","a"," ","U","R","L"," ","f","o","r","m","a","t">>, "image")]
         ELSE
           LET payload == IF is_url THEN pieces[2] ELSE image_data.s
               image_bytes == b64decode(payload)
           IN CASE ~image_bytes.ok ->
                     [ok |-> FALSE,
                      err |-> GeminiAPIErrorFrom(<<"I","n","v","a","l","i","d"," ","b","a","s","e","6","4"," ","e","n","c","o","d","i","n","g",":"," ">> \o IncorrectPadding,
                                                 "image", IncorrectPadding)]
                [] image_bytes.ok /\ ~image_bytes.v.is_image ->
                     [ok |-> FALSE,
                      err |-> GeminiAPIErrorFrom(<<"I","n","v","a","l","i","d"," ","o","r"," ","c","o","r","r","u","p","t","e","d"," ","i","m","a","g","e"," ","f","o","r","m","a","t",":"," ">> \o CannotIdentify,
                                                 "image", CannotIdentify)]
                [] image_bytes.ok /\ image_bytes.v.is_image /\ image_bytes.v.mb > MaxImageMB ->
                     [ok |-> FALSE, err |-> GeminiAPIError(<<"I","m","a","g","e"," ","f","i","l","e"," ","t","o","o"," ","l","a","r","g","e"," ","(","m","a","x"," ","1","0","M","B",")">>, "image")]
                [] OTHER -> [ok |-> TRUE, err |-> NoError]

-----------------------------------------------------------------------------
(* GeminiClient.analyze_image_and_recommend_plants, lines 394-407 *)

\* The GeminiAPIError raised for an exception of generate_content whose
\* str() is api_error.
categorize_api_error(api_error) ==
    LET error_msg == lower(api_error)
    IN IF Contains(error_msg, <<"q","u","o","t","a">>) \/ Contains(error_msg, <<"r","a","t","e"," ","l","i","m","i","t">>)
       THEN GeminiAPIErrorFrom(<<"A","P","I"," ","q","u","o","t","a"," ","e","x","c","e","e","d","e","d",":"," ">> \o api_error, "quota", api_error)
       ELSE IF Contains(error_msg, <<"n","e","t","w","o","r","k">>) \/ Contains(error_msg, <<"c","o","n","n","e","c","t","i","o","n">>)
       THEN GeminiAPIErrorFrom(<<"N","e","t","w","o","r","k"," ","e","r","r","o","r",":"," ">> \o api_error, "network", api_error)
       ELSE IF Contains(error_msg, <<"a","u","t","h">>) \/ Contains(error_msg, <<"p","e","r","m","i","s","s","i","o","n">>)
       THEN GeminiAPIErrorFrom(<<"A","u","t","h","e","n","t","i","c","a","t","i","o","n"," ","e","r","r","o","r",":"," ">> \o api_error, "auth", api_error)
       ELSE GeminiAPIErrorFrom(<<"A","P","I"," ","c","a","l","l"," ","f","a","i","l","e","d",":"," ">> \o api_error, "api", api_error)

-----------------------------------------------------------------------------
(* app.answer *)

\* request.get_json(): None, any JSON value, or a dict with its keys image
\* and location and whether it has any other key.
RequestData(img, location, other) ==
    [t |-> "dict", image |-> img, location |-> location, other |-> other]

\* not data
no_data(d) ==
    IF isinstance_dict(d)
    THEN d.image.t = "missing" /\ d.location.t = "missing" /\ ~d.other
    ELSE ~Truthy(d)

\* The value of the key "image" or "location" of a dict.
item(d, key) == IF key = <<"i","m","a","g","e">> THEN d.image ELSE d.location

\* `key in data`: a key of a dict, a substring of a str, an element of a
\* list; a number or a bool is not iterable (TypeError).
key_in(d, key) ==
    CASE isinstance_dict(d) -> Ok(item(d, key).t # "missing")
      [] isinstance_str(d) -> Ok(Contains(d.s, key))
      [] isinstance_list(d) -> Ok(\E i \in 1..Len(d.items) : d.items[i] = JStr(key))
      [] OTHER -> Err("TypeError")

\* data[key]: a str or a list takes no str index (TypeError).
getitem(d, key) == IF isinstance_dict(d) THEN Ok(item(d, key)) ELSE Err("TypeError")

\* The mapping without "api" in the 503 branch.
status_code_without_api(error_type) ==
    IF error_type = "auth" THEN 401
    ELSE IF error_type = "quota" THEN 429
    ELSE IF error_type = "network" THEN 503
    ELSE IF error_type \in {"validation", "image"} THEN 400
    ELSE 500

\* Lines 106-118: the status of a GeminiAPIError by its error_type.
status_code(error_type) ==
    IF error_type = "auth" THEN 401
    ELSE IF error_type = "quota" THEN 429
    ELSE IF error_type \in {"network", "api"} THEN 503
    ELSE IF error_type \in {"validation", "image"} THEN 400
    ELSE 500

NoDataResponse ==
    Body(JStr(<<"I","n","v","a","l","i","d"," ","r","e","q","u","e","s","t"," ","d","a","t","a",".">>), <<>>, JStr(<<"N","o"," ","d","a","t","a"," ","p","r","o","v","i","d","e","d"," ","i","n"," ","r","e","q","u","e","s","t",".">>))
MissingFieldsResponse ==
    Body(JStr(<<"M","i","s","s","i","n","g"," ","r","e","q","u","i","r","e","d"," ","f","i","e","l","d","s",".">>), <<>>, JStr(<<"I","m","a","g","e"," ","a","n","d"," ","l","o","c","a","t","i","o","n"," ","d","a","t","a"," ","a","r","e"," ","r","e","q","u","i","r","e","d",".">>))
InvalidLocationResponse ==
    Body(JStr(<<"I","n","v","a","l","i","d"," ","l","o","c","a","t","i","o","n"," ","f","o","r","m","a","t",".">>), <<>>,
         JStr(<<"L","o","c","a","t","i","o","n"," ","m","u","s","t"," ","b","e"," ","a"," ","l","i","s","t"," ","w","i","t","h"," ","a","t"," ","l","e","a","s","t"," ","l","a","t","i","t","u","d","e"," ","a","n","d"," ","l","o","n","g","i","t","u","d","e",".">>))
\* The reply of lines 88-92 with the fallback plants attached.
ClientFailedResponseWithPlants ==
    Body(JStr(<<"P","l","a","n","t"," ","a","n","a","l","y","s","i","s"," ","s","e","r","v","i","c","e"," ","i","s"," ","c","u","r","r","e","n","t","l","y"," ","u","n","a","v","a","i","l","a","b","l","e","."," ","P","l","e","a","s","e"," ","t","r","y"," ","a","g","a","i","n"," ","l","a","t","e","r",".">>),
         _get_fallback_plants,
         JStr(<<"S","e","r","v","i","c","e"," ","i","n","i","t","i","a","l","i","z","a","t","i","o","n"," ","f","a","i","l","e","d","."," ","P","l","e","a","s","e"," ","t","r","y"," ","a","g","a","i","n"," ","l","a","t","e","r",".">>))

ClientFailedResponse ==
    Body(JStr(<<"P","l","a","n","t"," ","a","n","a","l","y","s","i","s"," ","s","e","r","v","i","c","e"," ","i","s"," ","c","u","r","r","e","n","t","l","y"," ","u","n","a","v","a","i","l","a","b","l","e","."," ","P","l","e","a","s","e"," ","t","r","y"," ","a","g","a","i","n"," ","l","a","t","e","r",".">>), <<>>,
         JStr(<<"S","e","r","v","i","c","e"," ","i","n","i","t","i","a","l","i","z","a","t","i","o","n"," ","f","a","i","l","e","d","."," ","P","l","e","a","s","e"," ","t","r","y"," ","a","g","a","i","n"," ","l","a","t","e","r",".">>))

\* Lines 122-129: any exception that is not answered earlier.
UnexpectedResponse ==
    Body(JStr(<<"U","n","a","b","l","e"," ","t","o"," ","a","n","a","l","y","z","e"," ","l","o","c","a","t","i","o","n"," ","a","t"," ","t","h","i","s"," ","t","i","m","e","."," ","P","l","e","a","s","e"," ","t","r","y"," ","a","g","a","i","n",".">>), <<>>,
         JStr(<<"A","n"," ","u","n","e","x","p","e","c","t","e","d"," ","e","r","r","o","r"," ","o","c","c","u","r","r","e","d","."," ","P","l","e","a","s","e"," ","t","r","y"," ","a","g","a","i","n",".">>))

NoBody == Body(Missing, <<>>, Missing)
NoResponse == Response("none", RawText(<<>>))

-----------------------------------------------------------------------------
(* Inputs *)

\* The longest plants list of an upstream document.
MaxPlants == 2
\* The most fragments in the text of a failure.
MaxFragments == 2
\* The most clients constructed in one process.
MaxClients == 2

SeqsUpTo(S, n) == UNION {[1..k -> S] : k \in 0..n}

Url == JStr(<<"h","t","t","p","s",":","/","/","e","x","a","m","p","l","e",".","o","r","g","/","f","e","r","n",".","p","n","g">>)

GoodFern ==
    Plant(JStr(<<"F","e","r","n">>), Url, JStr(<<"a","W","1","n">>), JStr(<<"L","i","k","e","s"," ","s","h","a","d","e",".">>),
          JStr(<<"K","e","e","p"," ","m","o","i","s","t",".">>), JStr(<<"M","i","s","t"," ","w","e","e","k","l","y",".">>), Url, JFloat(9))
GoodIvy ==
    Plant(JStr(<<"I","v","y">>), JStr(<<>>), JStr(<<>>), JStr(<<"C","l","i","m","b","s",".">>),
          JStr(<<"W","a","t","e","r"," ","w","e","e","k","l","y",".">>), JStr(<<"P","r","u","n","e",".">>), JStr(<<>>), JInt(1))
EmptyDict == Plant(Missing, Missing, Missing, Missing, Missing, Missing, Missing, Missing)

\* The entries of the plants lists of the upstream documents.
PlantEntries ==
    {GoodFern, GoodIvy, EmptyDict,
     [GoodFern EXCEPT !.name = JStr(<<" ">>)],
     [GoodFern EXCEPT !.placement_confidence = NaN],
     [GoodFern EXCEPT !.placement_confidence = JBigInt],
     [GoodIvy EXCEPT !.placement_confidence = JFloat(15)],
     [GoodIvy EXCEPT !.placement_confidence = JStr(<<"0",".","7">>)],
     JStr(<<"F","e","r","n">>), Null}

Descriptions ==
    {Missing, JStr(<<>>), JStr(<<" ">>), JStr(<<"A"," ","s","u","n","n","y"," ","b","a","l","c","o","n","y",".">>), JInt(5), Null}

PlantsValues ==
    {Missing, Null, JStr(<<"F","e","r","n",","," ","I","v","y">>)} \cup {Array(ps) : ps \in SeqsUpTo(PlantEntries, MaxPlants)}

\* The number of plants the prompt asks for ("Suggest up to 5 plants").
MaxRecommendations == 5

\* A list of valid plants one longer than the prompt asks for.
ManyPlants ==
    Array([i \in 1..(MaxRecommendations + 1) |-> IF i % 2 = 1 THEN GoodFern ELSE GoodIvy])

Documents ==
    {Doc(d, ps, e) : d \in Descriptions, ps \in PlantsValues,
                     e \in {Missing, JStr(<<"u","p","s","t","r","e","a","m"," ","n","o","t","e">>)}}
    \cup {Doc(JStr(<<"A"," ","s","u","n","n","y"," ","b","a","l","c","o","n","y",".">>), ManyPlants, Missing)}
    \cup {Null, JInt(5), JStr(<<"h","e","l","l","o">>), Array(<<>>)}

RawTexts ==
    {<<>>, <<" "," ">>, <<"H","e","r","e"," ","a","r","e"," ","s","o","m","e"," ","P","l","a","n","t","s"," ","f","o","r"," ","y","o","u">>, <<"{","\\","\"","d","e","s","c","r","i","p","t","i","o","n","\\","\"",":"," ">>, <<"I"," ","R","E","C","O","M","M","E","N","D"," ","f","e","r","n","s">>, <<"o","o","p","s">>}

Responses ==
    {Response(shape, RawText(<<>>)) : shape \in {"null", "no_candidates", "no_parts", "no_text"}}
    \cup {Response("text", RawText(r)) : r \in RawTexts}
    \cup {Response("text", JsonText(d)) : d \in Documents}

Fragments ==
    {<<"a","u","t","h">>, <<"P","e","r","m","i","s","s","i","o","n">>, <<"q","u","o","t","a">>, <<"R","a","t","e"," ","L","i","m","i","t">>, <<"n","e","t","w","o","r","k">>, <<"t","i","m","e","o","u","t">>, <<"J","S","O","N">>,
     <<"d","e","c","o","d","e">>, <<"i","m","a","g","e">>, <<"c","o","r","r","u","p","t">>, <<"4","0","4">>, <<"s","e","r","v","i","c","e">>, <<"b","o","o","m">>}

RECURSIVE Join(_)
Join(fs) ==
    IF fs = <<>> THEN <<>>
    ELSE IF Len(fs) = 1 THEN fs[1]
    ELSE fs[1] \o <<" ">> \o Join(Tail(fs))

\* The texts of the failures: up to MaxFragments fragments joined by spaces.
ErrorTexts == {Join(fs) : fs \in SeqsUpTo(Fragments, MaxFragments)}

Images ==
    {Missing, Null, JInt(5), JStr(<<>>),
     JStr(<<"i","V","B","O","R","w","0","K","G","g","o","=">>), JStr(<<"d","a","t","a",":","i","m","a","g","e","/","p","n","g",";","b","a","s","e","6","4",",","i","V","B","O","R","w","0","K","G","g","o","=">>),
     JStr(<<"d","a","t","a",":","i","m","a","g","e","/","p","n","g",";","b","a","s","e","6","4">>), JStr(<<"/","9","j","/","4","A","A","Q">>), JStr(<<"a","G","V","s","b","G","8","=">>),
     JStr(<<"A","A","A","A">>), JStr(<<"A","A">>), JStr(<<"d","a","t","a",":","i","m","a","g","e","/","j","p","e","g",";","b","a","s","e","6","4",",","/","9","j","/","4","A","A","Q">>),
     JStr(<<"d","a","t","a",":","i","m","a","g","e","/","p","n","g",";","b","a","s","e","6","4",",">>)}

Lat == JFloat(407)
Lng == JFloat(-740)
Alt == JInt(10)

Locations ==
    {Missing, JStr(<<"N","Y","C">>), Array(<<>>), Array(<<Lat>>), Array(<<Lat, Lng>>),
     Array(<<Lat, Lng, Alt>>)}

Requests ==
    {Null, RequestData(Missing, Missing, FALSE)}
    \cup {RequestData(i, l, TRUE) : i \in Images, l \in Locations}
    \cup {JInt(0), JInt(5), JBool(TRUE), JStr(<<>>), JStr(<<"i","m","a","g","e">>), JStr(<<"i","m","a","g","e"," ","l","o","c","a","t","i","o","n">>),
          Array(<<>>), Array(<<JStr(<<"i","m","a","g","e">>)>>), Array(<<JStr(<<"i","m","a","g","e">>), JStr(<<"l","o","c","a","t","i","o","n">>)>>)}

-----------------------------------------------------------------------------------------------------------------------------------------------------
(* The /answer pipeline.                                                   *)
(*   pc        where the request is: "idle", "request", "create_client",   *)
(*             "analyze", "prepare", "invoke", "parse", "error",           *)
(*             "responded"                                                 *)
(*   data      request.get_json()                                          *)
(*   image     data["image"]                                               *)
(*   raised    the GeminiAPIError on its way to answer's handler           *)
(*   response  what generate_content returned                              *)
(*   status, body  the reply                                               *)
(*   calls     the calls of generate_content made for this request         *)
(*   stages    the stages this request has run, in the order they ran      *)
(*   constructions  the GeminiClient objects constructed (and genai        *)
(*             configured) since the process started                       *)
(*   client    gemini_client of this request: "none", "constructed", or    *)
(*             "failed" when create_gemini_client raised                   *)
(* plant, validated and error, handled hold the argument and the result    *)
(* of the validator and of the classifier when they are run on their own.  *)

NoRequest ==
    /\ data = Null
    /\ image = Missing
    /\ raised = NoError
    /\ response = NoResponse
    /\ status = 0
    /\ body = NoBody
    /\ calls = 0
    /\ stages = <<>>
    /\ constructions = 0
    /\ client = "none"

\* The community functions have not been called.
NoCommunity ==
    /\ plants_data = Null
    /\ plant_names = Ok(Null)
    /\ users_given = Null
    /\ users_data = Null
    /\ normalized_users = Ok(Null)

community_vars == <<plants_data, plant_names, users_given, users_data, normalized_users>>

Alone ==
    /\ plant = Null
    /\ validated = [raised |-> FALSE, plant |-> Null]
    /\ error = <<>>
    /\ handled = NoBody
    /\ NoCommunity

Init == pc = "idle" /\ NoRequest /\ Alone

alone == <<plant, validated, error, handled, community_vars>>

Respond(code, content) ==
    /\ pc' = "responded"
    /\ status' = code
    /\ body' = content

\* A request arrives.
Receive ==
    /\ pc = "idle"
    /\ constructions < MaxClients
    /\ \E d \in Requests : data' = d
    /\ pc' = "request"
    /\ UNCHANGED <<image, raised, response, status, body, calls, stages, constructions, client, alone>>

\* app.py 46-78: the shape of the request.  A TypeError of `in` or of
\* data["image"] is caught by line 122.
ValidateRequest ==
    /\ pc = "request"
    /\ stages' = Append(stages, "validate_request")
    /\ LET has_image == key_in(data, <<"i","m","a","g","e">>)
           has_location == key_in(data, <<"l","o","c","a","t","i","o","n">>)
       IN IF no_data(data) THEN
             Respond(400, NoDataResponse) /\ UNCHANGED image
          ELSE IF ~has_image.ok THEN
             Respond(500, UnexpectedResponse) /\ UNCHANGED image
          ELSE IF ~has_image.v \/ ~has_location.v THEN
             Respond(400, MissingFieldsResponse) /\ UNCHANGED image
          ELSE IF ~getitem(data, <<"i","m","a","g","e">>).ok THEN
             Respond(500, UnexpectedResponse) /\ UNCHANGED image
          ELSE IF ~isinstance_list(data.location) \/ Len(data.location.items) < 2 THEN
             Respond(400, InvalidLocationResponse) /\ UNCHANGED image
          ELSE
             /\ pc' = "create_client"
             /\ image' = getitem(data, <<"i","m","a","g","e">>).v
             /\ UNCHANGED <<status, body>>
    /\ UNCHANGED <<data, raised, response, calls, constructions, client, alone>>

\* app.py 84-92, GeminiClient.__init__ and _authenticate: the client is built
\* for this request; the constructor raises when there is no API key (line
\* 58) or when genai refuses the configuration (line 82).
CreateClient ==
    /\ pc = "create_client"
    /\ stages' = Append(stages, "create_client")
    /\ \E api_key \in BOOLEAN, authenticated \in BOOLEAN :
          IF api_key /\ authenticated
          THEN /\ pc' = "analyze"
               /\ constructions' = constructions + 1
               /\ client' = "constructed"
               /\ UNCHANGED <<status, body>>
          ELSE /\ Respond(503, ClientFailedResponse)
               /\ client' = "failed"
               /\ UNCHANGED constructions
    /\ UNCHANGED <<data, image, raised, response, calls, alone>>

\* gemini_client.py 365-373: self.model is set by the constructor and
\* location is the three-element list answer built, so only image_data decides.
ValidateInput ==
    /\ pc = "analyze"
    /\ stages' = Append(stages, "validate_input")
    /\ IF ~Truthy(image)
       THEN /\ raised' = GeminiAPIError(<<"M","i","s","s","i","n","g"," ","r","e","q","u","i","r","e","d"," ","i","m","a","g","e"," ","o","r"," ","l","o","c","a","t","i","o","n"," ","d","a","t","a">>, "validation")
            /\ pc' = "error"
       ELSE /\ pc' = "prepare"
            /\ UNCHANGED raised
    /\ UNCHANGED <<data, image, response, status, body, calls, constructions, client, alone>>

\* gemini_client.py 376-379: any failure of the preparation is raised again
\* as an "image" error with its text prefixed.
PrepareImage ==
    /\ pc = "prepare"
    /\ stages' = Append(stages, "prepare_image")
    /\ LET prepared == _prepare_image_for_api(image)
       IN IF prepared.ok
          THEN pc' = "invoke" /\ UNCHANGED raised
          ELSE /\ raised' = GeminiAPIErrorFrom(<<"I","m","a","g","e"," ","p","r","o","c","e","s","s","i","n","g"," ","f","a","i","l","e","d",":"," ">> \o prepared.err.message,
                                                "image", prepared.err.message)
               /\ pc' = "error"
    /\ UNCHANGED <<data, image, response, status, body, calls, constructions, client, alone>>

\* InvokeModel calling generate_content a second time when the first call
\* raised.
InvokeModelRetry ==
    /\ pc = "invoke"
    /\ stages' = Append(stages, "invoke_model")
    /\ \/ \E r \in Responses :
            /\ response' = r
            /\ calls' = calls + 1
            /\ pc' = "parse"
            /\ UNCHANGED raised
       \/ \E api_error \in ErrorTexts :
            /\ raised' = categorize_api_error(api_error)
            /\ calls' = calls + 2
            /\ pc' = "error"
            /\ UNCHANGED response
    /\ UNCHANGED <<data, image, status, body, constructions, client, alone>>

\* gemini_client.py 394-407: the one call of generate_content, which returns
\* a response or raises.
InvokeModel ==
    /\ pc = "invoke"
    /\ stages' = Append(stages, "invoke_model")
    /\ calls' = calls + 1
    /\ \/ \E r \in Responses :
            /\ response' = r
            /\ pc' = "parse"
            /\ UNCHANGED raised
       \/ \E api_error \in ErrorTexts :
            /\ raised' = categorize_api_error(api_error)
            /\ pc' = "error"
            /\ UNCHANGED response
    /\ UNCHANGED <<data, image, status, body, constructions, client, alone>>

\* The stages of _process_comprehensive_response for r: the parse, the loop
\* of lines 680-695 when the document's plants are a list, the result.
processing_stages(r) ==
    LET parsed == json_loads(r.text)
        looped == /\ r.shape = "text"
                  /\ ~blank_text(r.text)
                  /\ parsed.ok
                  /\ isinstance_dict(parsed.v)
                  /\ (parsed.v.plants.t = "missing" \/ isinstance_list(parsed.v.plants))
    IN <<"parse_response">> \o (IF looped THEN <<"validate_plants">> ELSE <<>>) \o <<"result">>

\* ProcessResponse with the strict checks of the legacy _process_api_response
\* (lines 720-757): a response without text, or text that is JSON but no
\* dict, raises instead of falling back.
ProcessResponseStrict ==
    /\ pc = "parse"
    /\ IF response.shape # "text" \/ (response.text.json /\ ~isinstance_dict(response.text.doc))
       THEN /\ raised' = GeminiAPIError(<<"R","e","s","p","o","n","s","e"," ","p","r","o","c","e","s","s","i","n","g"," ","f","a","i","l","e","d",":"," ","I","n","v","a","l","i","d"," ","r","e","s","p","o","n","s","e"," ","f","o","r","m","a","t">>,
                                         "malformed")
            /\ pc' = "error"
            /\ stages' = Append(stages, "parse_response")
            /\ UNCHANGED <<status, body>>
       ELSE /\ Respond(200, _process_comprehensive_response(response))
            /\ stages' = stages \o processing_stages(response)
            /\ UNCHANGED raised
    /\ UNCHANGED <<data, image, response, calls, constructions, client, alone>>

\* gemini_client.py 410-413, app.py 96-98: the response is processed and
\* the result sent with status 200.
ProcessResponse ==
    /\ pc = "parse"
    /\ stages' = stages \o processing_stages(response)
    /\ Respond(200, _process_comprehensive_response(response))
    /\ UNCHANGED <<data, image, raised, response, calls, constructions, client, alone>>

\* HandleError starting the analysis again instead of replying.
HandleErrorRetry ==
    /\ pc = "error"
    /\ stages' = Append(stages, "classify_error")
    /\ IF Len(stages) < 8
       THEN pc' = "analyze" /\ UNCHANGED <<status, body>>
       ELSE Respond(status_code(raised.error_type), handle_api_errors(raised.message))
    /\ UNCHANGED <<data, image, raised, response, calls, constructions, client, alone>>

\* app.py 100-120: the GeminiAPIError reaches answer.
HandleError ==
    /\ pc = "error"
    /\ stages' = Append(stages, "classify_error")
    /\ Respond(status_code(raised.error_type), handle_api_errors(raised.message))
    /\ UNCHANGED <<data, image, raised, response, calls, constructions, client, alone>>

\* The reply is sent; the next request starts from scratch, in the same
\* process.
NextRequest ==
    /\ pc = "responded"
    /\ pc' = "idle"
    /\ data' = Null
    /\ image' = Missing
    /\ raised' = NoError
    /\ response' = NoResponse
    /\ status' = 0
    /\ body' = NoBody
    /\ calls' = 0
    /\ stages' = <<>>
    /\ client' = "none"
    /\ UNCHANGED <<constructions, alone>>

Next ==
    \/ Receive
    \/ ValidateRequest
    \/ CreateClient
    \/ ValidateInput
    \/ PrepareImage
    \/ InvokeModel
    \/ ProcessResponse
    \/ HandleError
    \/ NextRequest

Spec == Init /\ [][Next]_vars

-----------------------------------------------------------------------------
(* _validate_comprehensive_plant_data on its own *)

NameValues ==
    {Missing, Null, JInt(5), JStr(<<>>), JStr(<<" ">>), JStr(<<"\\","t"," ","\\","n">>), JStr(<<"F","e","r","n">>),
     JStr(<<" ","F","e","r","n"," ">>)}
TextValues == {Missing, JInt(0), JStr(<<" ">>), JStr(<<"K","e","e","p"," ","m","o","i","s","t",".">>)}
OptionalValues == {Missing, Null, Url}
SuperimposedValues == {Missing, JInt(5), JStr(<<"a","W","1","n">>)}
ConfidenceValues ==
    {Missing, Null, Array(<<>>), JBool(TRUE), JBool(FALSE),
     JInt(-1), JInt(0), JInt(1), JInt(2), JBigInt,
     JFloat(-1), JFloat(0), JFloat(5), JFloat(7), JFloat(10), JFloat(11),
     NaN, Inf(1), Inf(-1),
     JStr(<<"0",".","7">>), JStr(<<" ","1"," ">>), JStr(<<"1",".","5">>), JStr(<<"-","0",".","5">>), JStr(<<"n","a","n">>), JStr(<<"-","I","n","f","i","n","i","t","y">>),
     JStr(<<"h","i","g","h">>), JStr(<<>>)}

\* The arguments of the validator: every combination of the required fields
\* and the confidence, of the optional fields and the confidence, and two
\* values that are no dict.
PlantSpace ==
    {Plant(n, Url, JStr(<<>>), d, ci, ct, Url, c) :
        n \in NameValues, d \in TextValues, ci \in TextValues, ct \in TextValues,
        c \in ConfidenceValues}
    \cup {Plant(JStr(<<"F","e","r","n">>), i, si, JStr(<<"L","i","k","e","s"," ","s","h","a","d","e",".">>), JStr(<<"K","e","e","p"," ","m","o","i","s","t",".">>),
                JStr(<<"M","i","s","t"," ","w","e","e","k","l","y",".">>), ar, c) :
        i \in OptionalValues, si \in SuperimposedValues, ar \in OptionalValues,
        c \in ConfidenceValues}
    \cup {Null, JStr(<<"F","e","r","n">>)}

InitValidate ==
    /\ pc = "validate"
    /\ NoRequest
    /\ plant \in PlantSpace
    /\ validated = [raised |-> FALSE, plant |-> Null]
    /\ error = <<>>
    /\ handled = NoBody
    /\ NoCommunity

ValidatePlant ==
    /\ pc = "validate"
    /\ validated' = _validate_comprehensive_plant_data(plant)
    /\ pc' = "validated"
    /\ UNCHANGED <<data, image, raised, response, status, body, calls, stages, constructions,
                   client, plant, error, handled, community_vars>>

NextValidate == ValidatePlant

SpecValidate == InitValidate /\ [][NextValidate]_vars

-----------------------------------------------------------------------------
(* handle_api_errors on its own *)

InitClassify ==
    /\ pc = "classify"
    /\ NoRequest
    /\ plant = Null
    /\ validated = [raised |-> FALSE, plant |-> Null]
    /\ error \in ErrorTexts
    /\ handled = NoBody
    /\ NoCommunity

Classify ==
    /\ pc = "classify"
    /\ handled' = handle_api_errors(error)
    /\ pc' = "classified"
    /\ UNCHANGED <<data, image, raised, response, status, body, calls, stages, constructions,
                   client, plant, validated, error, community_vars>>

NextClassify == Classify

SpecClassify == InitClassify /\ [][NextClassify]_vars

-----------------------------------------------------------------------------------------------------------------------------------------------------
(* _prepare_image_for_api on its own: image is its argument, raised the      *)
(* GeminiAPIError it raised                                                 *)

Prefixes ==
    {<<>>, <<"d","a","t","a",":","i","m","a","g","e","/","p","n","g",";","b","a","s","e","6","4",",">>, <<"d","a","t","a",":","i","m","a","g","e","/","j","p","e","g",";","b","a","s","e","6","4",",">>, <<"d","a","t","a",":","i","m","a","g","e","/","w","e","b","p",";","b","a","s","e","6","4",",">>,
     <<"d","a","t","a",":","i","m","a","g","e","/","g","i","f",";","b","a","s","e","6","4",",">>, <<"d","a","t","a",":","i","m","a","g","e",",">>, <<"d","a","t","a",":","i","m","a","g","e","/","p","n","g",";","b","a","s","e","6","4">>,
     <<"d","a","t","a",":","i","m","a","g","e","/","j","p","e","g",";","b","a","s","e","6","4">>}
Payloads ==
    {<<>>, <<"i","V","B","O","R","w","0","K","G","g","o","=">>, <<"/","9","j","/","4","A","A","Q">>, <<"a","G","V","s","b","G","8","=">>, <<"A","A","A","A">>, <<"A","A">>, <<"A","A","A">>}

\* The arguments of the preparation: every prefix before every payload, and
\* values that are no string.
ImageSpace ==
    {JStr(prefix \o payload) : prefix \in Prefixes, payload \in Payloads}
    \cup {Null, JInt(5), JBool(TRUE), Array(<<>>)}

InitPrepare ==
    /\ pc = "prepare_alone"
    /\ data = Null
    /\ image \in ImageSpace
    /\ raised = NoError
    /\ response = NoResponse
    /\ status = 0
    /\ body = NoBody
    /\ calls = 0
    /\ stages = <<>>
    /\ constructions = 0
    /\ client = "none"
    /\ Alone

Prepare ==
    /\ pc = "prepare_alone"
    /\ raised' = _prepare_image_for_api(image).err
    /\ pc' = "prepared_alone"
    /\ UNCHANGED <<data, image, response, status, body, calls, stages, constructions, client,
                   alone>>

NextPrepare == Prepare

SpecPrepare == InitPrepare /\ [][NextPrepare]_vars

-----------------------------------------------------------------------------
(* answer with the client taken by its interface (app.py 94-129): the call   *)
(* of analyze_image_and_recommend_plants returns a dict, raises a           *)
(* GeminiAPIError or raises any other exception, as when the client is      *)
(* patched in test_error_handling_integration                               *)

\* An exception that is no GeminiAPIError: it has no error_type, the field
\* holds its class.
ExceptionClasses == {"Exception", "ValueError", "KeyError", "RuntimeError"}
PlainException(class, message) ==
    [message |-> message, error_type |-> class, original_error |-> Null]

ErrorTypes ==
    {"auth", "quota", "network", "api", "validation", "image", "malformed", "general"}

\* The texts of the exceptions of the call.
CallTexts == {<<"A","P","I"," ","E","r","r","o","r">>} \cup Fragments

\* The dicts the call returns.
CallResults ==
    {_create_comprehensive_fallback_response(<<"N","o"," ","r","e","s","p","o","n","s","e"," ","r","e","c","e","i","v","e","d">>),
     process_parsed(Doc(JStr(<<"A"," ","s","u","n","n","y"," ","b","a","l","c","o","n","y",".">>), Array(<<GoodFern, GoodIvy>>), Missing))}

\* AnalyzeAny with one handler for every exception of the call.
AnalyzeAnyOneHandler ==
    /\ pc = "analyze"
    /\ stages' = Append(stages, "analyze")
    /\ \/ \E result \in CallResults :
            /\ Respond(200, result)
            /\ UNCHANGED raised
       \/ \E message \in CallTexts, error_type \in ErrorTypes :
            /\ raised' = GeminiAPIError(message, error_type)
            /\ pc' = "error"
            /\ UNCHANGED <<status, body>>
       \/ \E message \in CallTexts, class \in ExceptionClasses :
            /\ raised' = PlainException(class, message)
            /\ pc' = "error"
            /\ UNCHANGED <<status, body>>
    /\ UNCHANGED <<data, image, response, calls, constructions, client, alone>>

\* app.py 95-129: the call returns and the result is sent (96-98), raises a
\* GeminiAPIError that the handler of line 100 takes, or raises another
\* exception that only the handler of line 122 catches.
AnalyzeAny ==
    /\ pc = "analyze"
    /\ stages' = Append(stages, "analyze")
    /\ \/ \E result \in CallResults :
            /\ Respond(200, result)
            /\ UNCHANGED raised
       \/ \E message \in CallTexts, error_type \in ErrorTypes :
            /\ raised' = GeminiAPIError(message, error_type)
            /\ pc' = "error"
            /\ UNCHANGED <<status, body>>
       \/ \E message \in CallTexts, class \in ExceptionClasses :
            /\ raised' = PlainException(class, message)
            /\ Respond(500, UnexpectedResponse)
    /\ UNCHANGED <<data, image, response, calls, constructions, client, alone>>

NextAnswer ==
    \/ Receive
    \/ ValidateRequest
    \/ CreateClient
    \/ AnalyzeAny
    \/ HandleError
    \/ NextRequest

SpecAnswer == Init /\ [][NextAnswer]_vars

-----------------------------------------------------------------------------
(* Community matching: extract_plant_names and                              *)
(* normalize_user_data_for_community (app.py 132-188)                       *)

\* app.py 150-159: the loop over the entries, in order.
RECURSIVE append_names(_, _)
append_names(names, entries) ==
    IF entries = <<>> THEN names
    ELSE LET entry == Head(entries) IN
         IF isinstance_str(entry)
             THEN append_names(Append(names, entry), Tail(entries))
         ELSE IF isinstance_dict(entry) /\ entry.name.t # "missing"
             THEN append_names(Append(names, entry.name), Tail(entries))
         ELSE append_names(names, Tail(entries))

\* app.py 132-161, for None, lists, strings and numbers: a falsy value gives
\* [], a list is looped over, a str is looped over by character, a number is
\* not iterable (TypeError).
extract_plant_names(data_) ==
    IF ~Truthy(data_) THEN Ok(Array(<<>>))
    ELSE IF isinstance_list(data_)
        THEN Ok(Array(append_names(<<>>, data_.items)))
    ELSE IF isinstance_str(data_)
        THEN Ok(Array([i \in 1..Len(data_.s) |-> JStr(<<data_.s[i]>>)]))
    ELSE Err("TypeError")

\* A user object: {"name": ..., "plants": ...}; Missing for an absent key.
User(name, plants) == [t |-> "dict", name |-> name, plants |-> plants]

\* app.py 180: the users the loop does not skip.
has_plants(user) == isinstance_dict(user) /\ user.plants.t # "missing"

\* The outcome of normalize_user_data_for_community: the returned list or
\* the exception, and the argument as the call leaves it.
Normalized(result, users) ==
    [ok |-> result.ok, v |-> result.v, exc |-> result.exc, users_data |-> users]

\* app.py 164-188: the users that are dicts with "plants", each copied
\* (user.copy(), line 184) and the copy's plants replaced (185); a str is
\* looped over by character and every character skipped; extraction from a
\* number raises TypeError out of the loop.
normalize_user_data_for_community(users) ==
    IF ~isinstance_list(users)
        THEN Normalized(IF isinstance_str(users) THEN Ok(Array(<<>>)) ELSE Err("TypeError"), users)
    ELSE LET kept == SelectSeq(users.items, has_plants) IN
         IF \E i \in 1..Len(kept) : ~extract_plant_names(kept[i].plants).ok
             THEN Normalized(Err("TypeError"), users)
         ELSE Normalized(Ok(Array(
                  [i \in 1..Len(kept) |->
                      [kept[i] EXCEPT !.plants = extract_plant_names(kept[i].plants).v]])), users)

MaxNames == 2
MaxUsers == 2

Rose == [GoodFern EXCEPT !.name = JStr(<<"R","o","s","e">>)]
Oak == [GoodIvy EXCEPT !.name = JStr(<<"O","a","k">>)]

\* The entries of a plants list: names, plant objects, objects without a
\* name, an object whose name is a number or null, and other values.
NameEntries ==
    {JStr(<<"R","o","s","e">>), JStr(<<"O","a","k">>), Rose, Oak, EmptyDict,
     [Rose EXCEPT !.name = Missing], [Rose EXCEPT !.name = JInt(5)],
     [Oak EXCEPT !.name = Null], JInt(5), Null}

PlantsDataSpace ==
    {Null, JInt(5), JInt(0), JStr(<<"R","o","s","e">>), JStr(<<>>)}
    \cup {Array(es) : es \in SeqsUpTo(NameEntries, MaxNames)}

\* The entries of a users list (test_normalize_user_data_for_community).
UserEntries ==
    {User(JStr(<<"M","a","r","i","a">>), Array(<<JStr(<<"R","o","s","e">>), JStr(<<"O","a","k">>)>>)),
     User(JStr(<<"J","o","h","n">>), Array(<<Rose, Oak>>)),
     User(JStr(<<"A","i","s","h","a">>), Array(<<JStr(<<"R","o","s","e">>), Oak, EmptyDict>>)),
     User(JStr(<<"E","m","p","t","y"," ","P","l","a","n","t","s">>), Array(<<>>)),
     User(JStr(<<"L","i","a","m">>), Null),
     User(JStr(<<"N","o","a","h">>), JInt(5)),
     User(JStr(<<"n","o","_","p","l","a","n","t","s","_","f","i","e","l","d">>), Missing),
     User(Missing, Array(<<JStr(<<"O","a","k">>)>>)),
     JStr(<<"n","o","t","_","a","_","d","i","c","t">>), Null}

UsersSpace ==
    {Null, JInt(5), JStr(<<"R","a","j">>)}
    \cup {Array(us) : us \in SeqsUpTo(UserEntries, MaxUsers)}

InitExtract ==
    /\ pc = "extract"
    /\ NoRequest
    /\ plant = Null
    /\ validated = [raised |-> FALSE, plant |-> Null]
    /\ error = <<>>
    /\ handled = NoBody
    /\ plants_data \in PlantsDataSpace
    /\ plant_names = Ok(Null)
    /\ users_given = Null
    /\ users_data = Null
    /\ normalized_users = Ok(Null)

Extract ==
    /\ pc = "extract"
    /\ plant_names' = extract_plant_names(plants_data)
    /\ pc' = "extracted"
    /\ UNCHANGED <<data, image, raised, response, status, body, calls, stages, constructions,
                   client, plant, validated, error, handled, plants_data, users_given,
                   users_data, normalized_users>>

NextExtract == Extract

SpecExtract == InitExtract /\ [][NextExtract]_vars

InitNormalize ==
    /\ pc = "normalize"
    /\ NoRequest
    /\ plant = Null
    /\ validated = [raised |-> FALSE, plant |-> Null]
    /\ error = <<>>
    /\ handled = NoBody
    /\ plants_data = Null
    /\ plant_names = Ok(Null)
    /\ users_given \in UsersSpace
    /\ users_data = users_given
    /\ normalized_users = Ok(Null)

Normalize ==
    /\ pc = "normalize"
    /\ LET result == normalize_user_data_for_community(users_data) IN
           /\ normalized_users' = [ok |-> result.ok, v |-> result.v, exc |-> result.exc]
           /\ users_data' = result.users_data
    /\ pc' = "normalized"
    /\ UNCHANGED <<data, image, raised, response, status, body, calls, stages, constructions,
                   client, plant, validated, error, handled, plants_data, plant_names,
                   users_given>>

NextNormalize == Normalize

SpecNormalize == InitNormalize /\ [][NextNormalize]_vars

-----
(* Properties of the pipeline *)

\* The reply to a request whose response reached _process_comprehensive_response.
Parsed == pc = "responded" /\ response # NoResponse

\* A description that is absent, null or the empty string.
EmptyDescription(d) == d.t \in {"missing", "null"} \/ (d.t = "str" /\ d.s = <<>>)

\* The names and confidences of a plants list.
NamesOf(plants) == [i \in 1..Len(plants) |-> plants[i].name]
ConfidencesOf(plants) == [i \in 1..Len(plants) |-> plants[i].placement_confidence]

FallbackNames == <<JStr(<<"S","p","i","d","e","r"," ","P","l","a","n","t">>), JStr(<<"P","o","t","h","o","s">>), JStr(<<"S","n","a","k","e"," ","P","l","a","n","t">>)>>
FallbackConfidences == <<JFloat(7), JFloat(8), JFloat(6)>>

\* C1: whatever the upstream response is (null, no candidates, no parts, empty
\* text, text that is not JSON, JSON that is no object, an object with missing
\* or ill-typed fields), the result of _process_comprehensive_response never
\* has both an empty description and an empty plant list.
C1_NeverNothing ==
    Parsed => ~(EmptyDescription(body.description) /\ body.plants = <<>>)

\* C1 witness: a document with an empty description and an empty plants list
\* has been processed.
C1_Witness ==
    /\ Parsed
    /\ response.text.json
    /\ isinstance_dict(response.text.doc)
    /\ response.text.doc.description = JStr(<<>>)
    /\ response.text.doc.plants = Array(<<>>)

\* The first text part is not empty and is not JSON.
NonJsonText == response.shape = "text" /\ ~response.text.json /\ response.text.raw # <<>>

\* C2: when the first text part is non-empty but not parseable as JSON, the
\* result has a non-empty description and its plants are Spider Plant, Pothos
\* and Snake Plant.
C2_NonJsonFallback ==
    (Parsed /\ NonJsonText) =>
        /\ isinstance_str(body.description)
        /\ body.description.s # <<>>
        /\ NamesOf(body.plants) = FallbackNames

\* C2 witness: text that is not JSON and not blank has been processed.
C2_Witness == Parsed /\ NonJsonText /\ strip(response.text.raw) # <<>>

\* C3: once generate_content has returned a response, no shape of it is
\* surfaced as a failure: no GeminiAPIError is raised and /answer replies 200.
C3_ShapeNeverFails ==
    (response # NoResponse) =>
        /\ raised = NoError
        /\ pc \in {"parse", "responded"}
        /\ (pc = "responded" => status = 200)

\* C3 witness: an ill-shaped response (no candidates, or JSON that is no
\* object) has been answered.
C3_Witness ==
    /\ Parsed
    /\ \/ response.shape = "no_candidates"
       \/ (response.shape = "text" /\ response.text.json
           /\ ~isinstance_dict(response.text.doc))

\* The document is a dict whose plants is a list with no dict in it.
NoStructuredEntry ==
    /\ response.shape = "text"
    /\ response.text.json
    /\ isinstance_dict(response.text.doc)
    /\ isinstance_list(response.text.doc.plants)
    /\ \A i \in 1..Len(response.text.doc.plants.items) :
          ~isinstance_dict(response.text.doc.plants.items[i])

\* C4: when the plants list of the parsed document is empty or has no
\* structured object in it, the result's plants are Spider Plant/0.7,
\* Pothos/0.8, Snake Plant/0.6 in that order.
C4_FallbackTriple ==
    (Parsed /\ NoStructuredEntry) =>
        /\ NamesOf(body.plants) = FallbackNames
        /\ ConfidencesOf(body.plants) = FallbackConfidences

\* C4 witness: a plants list whose entries are all not dicts, and is not
\* empty, has been processed.
C4_Witness ==
    Parsed /\ NoStructuredEntry /\ Len(response.text.doc.plants.items) > 0

-----------------------------------------------------------------------------
(* Properties of the validator *)

RequiredOf(p) == <<p.name, p.description, p.care_instructions, p.care_tips>>
OptionalOf(p) == <<p.image, p.AR_model, p.superimposed_image>>

\* A number within [0, 1].
InUnitInterval(v) ==
    \/ (v.t = "int" /\ v.n \in 0..1)
    \/ (v.t = "float" /\ v.n \in 0..10)

\* A string that spells a number within [0, 1].
SpellsUnitNumber(v) ==
    /\ v.t = "str"
    /\ LET f == float_str(v.s) IN f.ok /\ InUnitInterval(f.v)

\* A confidence that is present and is neither a number within [0, 1] nor
\* text or a boolean that stands for one.
NonNumericOrOutside(v) ==
    /\ v.t \notin {"missing", "bool"}
    /\ ~InUnitInterval(v)
    /\ ~SpellsUnitNumber(v)

ValidatedDict == pc = "validated" /\ isinstance_dict(plant)

\* C5: a plant record whose placement_confidence is non-numeric or a number
\* outside [0,1] has placement_confidence exactly 0.5 after validation.
C5_ConfidenceDefault ==
    (ValidatedDict /\ NonNumericOrOutside(plant.placement_confidence)) =>
        /\ ~validated.raised
        /\ validated.plant.placement_confidence = JFloat(5)

\* C6: after the validator returns for a structured plant record, name,
\* description, care_instructions and care_tips are non-empty strings and
\* placement_confidence is a number within [0,1].
C6_ValidatedPlant ==
    (ValidatedDict /\ ~validated.raised) =>
        /\ \A i \in 1..4 :
              /\ isinstance_str(RequiredOf(validated.plant)[i])
              /\ RequiredOf(validated.plant)[i].s # <<>>
        /\ InUnitInterval(validated.plant.placement_confidence)

-----------------------------------------------------------------------------
(* Round trip *)

\* Equal values, numbers compared by value (1 and 1.0 are equal).
SameValue(a, b) ==
    \/ a = b
    \/ /\ a.t \in {"int", "float"} /\ b.t \in {"int", "float"}
       /\ (IF a.t = "int" THEN 10 * a.n ELSE a.n) = (IF b.t = "int" THEN 10 * b.n ELSE b.n)

SamePlant(a, b) ==
    /\ isinstance_dict(a) /\ isinstance_dict(b)
    /\ RequiredOf(a) = RequiredOf(b)
    /\ OptionalOf(a) = OptionalOf(b)
    /\ SameValue(a.placement_confidence, b.placement_confidence)

\* A plant object of the schema: non-empty required strings, string optional
\* fields, a confidence in [0,1].
WellFormedPlant(p) ==
    /\ isinstance_dict(p)
    /\ \A i \in 1..4 : isinstance_str(RequiredOf(p)[i]) /\ RequiredOf(p)[i].s # <<>>
    /\ \A i \in 1..3 : isinstance_str(OptionalOf(p)[i])
    /\ InUnitInterval(p.placement_confidence)

\* A document of the schema: a string description and a list of plant objects.
WellFormedDocument(d) ==
    /\ isinstance_dict(d)
    /\ isinstance_str(d.description)
    /\ isinstance_list(d.plants)
    /\ \A i \in 1..Len(d.plants.items) : WellFormedPlant(d.plants.items[i])

\* No required string of the plant is made of whitespace only.
NoBlankField(p) == \A i \in 1..4 : strip(RequiredOf(p)[i].s) # <<>>

\* The reply carries the document: same description, same plants in the same
\* order, every field preserved.
RoundTrip(d) ==
    /\ status = 200
    /\ body.description = d.description
    /\ body.error = d.error
    /\ Len(body.plants) = Len(d.plants.items)
    /\ \A i \in 1..Len(d.plants.items) : SamePlant(body.plants[i], d.plants.items[i])

ParsedJson == Parsed /\ response.shape = "text" /\ response.text.json

\* C7 as stated: every well-formed document passes through unchanged.
C7_RoundTripAny ==
    (ParsedJson /\ WellFormedDocument(response.text.doc)) => RoundTrip(response.text.doc)

\* C7, amended: a well-formed document with at least one plant and no
\* whitespace-only required string passes through unchanged: same description,
\* same plants in the same order, every field preserved (numbers by value).
C7_RoundTrip ==
    (/\ ParsedJson
     /\ WellFormedDocument(response.text.doc)
     /\ Len(response.text.doc.plants.items) >= 1
     /\ \A i \in 1..Len(response.text.doc.plants.items) :
           NoBlankField(response.text.doc.plants.items[i]))
    => RoundTrip(response.text.doc)

\* C7 witness: a well-formed document with two different plants, one of them
\* with confidence 1, has been processed.
C7_Witness ==
    /\ ParsedJson
    /\ WellFormedDocument(response.text.doc)
    /\ response.text.doc.plants.items = <<GoodFern, GoodIvy>>

-----------------------------------------------------------------------------
(* Properties of the classifier *)

KindOrder == <<"Auth", "Quota", "Network", "Malformed", "ImageInvalid", "ServiceUnavailable">>

TermsOf ==
    [Auth |-> auth_terms, Quota |-> quota_terms, Network |-> network_terms,
     Malformed |-> format_terms, ImageInvalid |-> image_terms,
     ServiceUnavailable |-> unavail_terms]

ContentOf ==
    [Auth |-> AuthResponse, Quota |-> QuotaResponse, Network |-> NetworkResponse,
     Malformed |-> MalformedResponse, ImageInvalid |-> ImageResponse,
     ServiceUnavailable |-> UnavailableResponse, General |-> GeneralResponse]

\* The places in KindOrder of the kinds with a term in the lower-cased text.
Matching(text) == {i \in 1..Len(KindOrder) : any_in(lower(text), TermsOf[KindOrder[i]])}

\* The earliest matching kind, General when none matches.
EarliestKind(text) ==
    IF Matching(text) = {} THEN "General"
    ELSE KindOrder[CHOOSE i \in Matching(text) : \A j \in Matching(text) : i <= j]

\* C8: handle_api_errors gives every failure text the content of exactly one
\* kind, the earliest in the order Auth, Quota, Network, Malformed,
\* ImageInvalid, ServiceUnavailable with a term in the lower-cased text, and
\* General when no kind has one.
C8_FirstMatchWins ==
    (pc = "classified") => handled = ContentOf[EarliestKind(error)]

\* C8 witness: a text with terms of two kinds, one of them in upper case, has
\* been classified.
C8_Witness ==
    /\ pc = "classified"
    /\ Cardinality(Matching(error)) >= 2
    /\ lower(error) # error

-----------------------------------------------------------------------------
(* Properties of the failures surfaced by /answer *)

\* The error kind an error_type stands for.
KindOf ==
    [auth |-> "Auth", quota |-> "Quota", network |-> "Network", api |-> "ServiceUnavailable",
     validation |-> "Validation", image |-> "ImageInvalid", malformed |-> "Malformed",
     general |-> "General"]

StatusOf ==
    [Auth |-> 401, Quota |-> 429, Network |-> 503, ServiceUnavailable |-> 503,
     Validation |-> 400, ImageInvalid |-> 400, General |-> 500, Malformed |-> 500]

\* The reply to a request that ended in a GeminiAPIError.
Surfaced == pc = "responded" /\ raised # NoError

C10_PlantsByKind ==
    Surfaced =>
        IF KindOf[raised.error_type] \in {"Auth", "ImageInvalid"}
        THEN body.plants = <<>>
        ELSE NamesOf(body.plants) = FallbackNames

-----------------------------------------------------------------------------
(* Properties of the failures of the external call *)

\* The reply to a request whose call of generate_content raised, and the
\* lower-cased text of what it raised.
CallFailed == Surfaced /\ calls > 0
FailureText == lower(raised.original_error.s)

\* C11: a failure of the external call whose text contains "permission" is
\* answered with the Auth content and status 401; one whose text contains
\* "quota" with the Quota content and status 429; one whose text contains
\* "timeout" with the Network content and status 503.  The classifier's
\* priority is respected: a text that also has a term of an earlier kind
\* belongs to that kind.
C11_TermDecides ==
    CallFailed =>
        /\ Contains(FailureText, <<"p","e","r","m","i","s","s","i","o","n">>) => (body = AuthResponse /\ status = 401)
        /\ (Contains(FailureText, <<"q","u","o","t","a">>) /\ ~any_in(FailureText, auth_terms)) =>
              (body = QuotaResponse /\ status = 429)
        /\ (/\ Contains(FailureText, <<"t","i","m","e","o","u","t">>)
            /\ ~any_in(FailureText, auth_terms)
            /\ ~any_in(FailureText, quota_terms)) =>
              (body = NetworkResponse /\ status = 503)

\* C12: a failure whose text has none of the classifier's terms, a failure
\* of the external call included, is answered as General: the General
\* content with the three fallback plants, and status 500.
C12_UnclassifiedIs500 ==
    (Surfaced /\ Matching(raised.message) = {}) =>
        /\ body = GeneralResponse
        /\ NamesOf(body.plants) = FallbackNames
        /\ status = 500

-----------------------------------------------------------------------------
(* Properties of the request and of the stages *)

\* The stage has run for the request in progress.
Ran(stage) == \E i \in 1..Len(stages) : stages[i] = stage

\* A request of malformed shape: no body, no image, no location (a body that
\* is no object has neither), a location that is no list or has fewer than
\* two components.
MalformedRequest(d) ==
    \/ no_data(d)
    \/ ~isinstance_dict(d)
    \/ d.image.t = "missing"
    \/ d.location.t = "missing"
    \/ ~isinstance_list(d.location)
    \/ Len(d.location.items) < 2

\* C13: a request of malformed shape is answered with status 400 and an
\* error field, before the client is constructed and without any call of
\* the external service.
C13_MalformedIs400 ==
    (pc = "responded" /\ MalformedRequest(data)) =>
        /\ status = 400
        /\ isinstance_str(body.error)
        /\ ~Ran("create_client")
        /\ calls = 0

\* A finished run of analyze_image_and_recommend_plants, and whether its
\* input validation and image preparation succeed (the authentication check
\* of line 365 succeeds for every constructed client).
Analyzed == pc = "responded" /\ Ran("validate_input")
ChecksPass == Truthy(image) /\ _prepare_image_for_api(image).ok

\* C14: the external service is called at most once in a run of
\* analyze_image_and_recommend_plants, with no retry: exactly once when the
\* checks and the image preparation succeed, never when one of them fails.
C14_OneCall ==
    /\ calls <= 1
    /\ Analyzed => calls = (IF ChecksPass THEN 1 ELSE 0)

\* C14 witness: the one call raised and the run ended without a second call.
C14_Witness == Analyzed /\ ChecksPass /\ raised # NoError /\ calls = 1

\* The stages of the pipeline in their order.
StageOrder ==
    <<"validate_input", "prepare_image", "invoke_model", "parse_response", "validate_plants",
      "result">>
IsStage(stage) == \E k \in 1..Len(StageOrder) : StageOrder[k] = stage
Rank(stage) == CHOOSE k \in 1..Len(StageOrder) : StageOrder[k] = stage

\* C15: the stages of a request run in the order Validate Input, Prepare
\* Image, Invoke Model, Parse Response, Validate Plants, Result, each at most
\* once; once a stage has exited to the error classification, no stage runs
\* and the classification is not entered again.
C15_StagesInOrder ==
    \A i, j \in 1..Len(stages) :
        i < j =>
           /\ (IsStage(stages[i]) /\ IsStage(stages[j])) => Rank(stages[i]) < Rank(stages[j])
           /\ stages[i] = "classify_error" => (~IsStage(stages[j]) /\ stages[j] # "classify_error")

\* C15 witness: the external call raised, the failure was classified and
\* the reply sent.
C15_Witness ==
    /\ pc = "responded"
    /\ Ran("validate_input") /\ Ran("prepare_image") /\ Ran("invoke_model")
    /\ stages[Len(stages)] = "classify_error"

-----------------------------------------------------------------------------
(* Properties of the image preparation *)

\* The base64 payload of an image string: what follows the first comma of a
\* data URL, else the string.
PayloadOf(img) ==
    IF startswith(img.s, <<"d","a","t","a",":","i","m","a","g","e">>) /\ Len(split_comma(img.s, <<>>)) >= 2
    THEN split_comma(img.s, <<>>)[2]
    ELSE img.s

\* The image string decodes to more than 10 MB.
Oversize(img) ==
    /\ isinstance_str(img)
    /\ b64decode(PayloadOf(img)).ok
    /\ b64decode(PayloadOf(img)).v.mb > 10

\* C16: an image whose decoded size exceeds 10 MB is rejected by the image
\* preparation with an image error, valid image or not, and the external
\* service is not called.
C16_OversizeRejected ==
    (Ran("prepare_image") /\ Oversize(image)) =>
        /\ raised.error_type = "image"
        /\ ~Ran("invoke_model")
        /\ calls = 0

\* C16 witness: a valid JPEG of 11 MB has been rejected and the reply sent.
C16_Witness ==
    /\ pc = "responded"
    /\ Ran("prepare_image")
    /\ Oversize(image)
    /\ b64decode(PayloadOf(image)).v.is_image

\* C17: whatever makes _prepare_image_for_api fail (an empty or non-string
\* argument, a data URL without a comma, invalid base64, bytes that are no
\* image, too many bytes), what it raises is a GeminiAPIError of type
\* "image".
C17_ImageErrorOnly ==
    (pc = "prepared_alone" /\ ~_prepare_image_for_api(image).ok) =>
        /\ raised # NoError
        /\ raised.error_type = "image"

\* C17 witness: the decoder refused the payload of a data URL.
C17_Witness ==
    /\ pc = "prepared_alone"
    /\ isinstance_str(image)
    /\ startswith(image.s, <<"d","a","t","a",":","i","m","a","g","e">>)
    /\ Len(split_comma(image.s, <<>>)) >= 2
    /\ ~b64decode(PayloadOf(image)).ok
    /\ raised.original_error = JStr(IncorrectPadding)

-----------------------------------------------------------------------------
(* Properties of the client and of the replies *)

\* C18: when the construction of the client fails, /answer replies with
\* status 503, an error field and an empty plant list, and neither the image
\* preparation nor the external call is attempted.
C18_ClientFailureIs503 ==
    (client = "failed") =>
        /\ pc = "responded"
        /\ status = 503
        /\ isinstance_str(body.error)
        /\ body.plants = <<>>
        /\ ~Ran("validate_input") /\ ~Ran("prepare_image") /\ ~Ran("invoke_model")
        /\ calls = 0

\* C18 witness: the construction failed for a request with a valid image.
C18_Witness ==
    /\ client = "failed"
    /\ pc = "responded"
    /\ _prepare_image_for_api(image).ok

\* C19: in one process the client is constructed once, whatever the number
\* of requests: no request constructs it again.
C19_ConstructedOnce == constructions <= 1

\* C20: every reply of /answer with a status other than 200 (from the
\* request validation, the client construction, a classified failure or an
\* unexpected exception) has a string description, a plants list and a string
\* error; handle_api_errors returns the three for every text.
C20_FailureShape ==
    (pc = "responded" /\ status # 200) =>
        /\ isinstance_str(body.description)
        /\ isinstance_str(body.error)
        /\ (body.plants = <<>> \/ body.plants = _get_fallback_plants)

\* C20 witness: a failure of the external call with no term of the
\* classifier has been answered.
C20_Witness == CallFailed /\ Matching(raised.message) = {} /\ status # 200

\* C21: when the call of analyze_image_and_recommend_plants raises an
\* exception that is no GeminiAPIError, /answer replies with status 500, an
\* error field and an empty plant list, and handle_api_errors is not called.
C21_OtherExceptionIs500 ==
    (pc = "responded" /\ raised.error_type \in ExceptionClasses) =>
        /\ status = 500
        /\ isinstance_str(body.error)
        /\ body.plants = <<>>
        /\ ~Ran("classify_error")

\* C21 witness: the call raised Exception("API Error") and the reply was sent.
C21_Witness ==
    /\ pc = "responded"
    /\ raised = PlainException("Exception", <<"A","P","I"," ","E","r","r","o","r">>)

\* C22: every result of a successful run holds at most 5 plants, also for a
\* document that lists more than 5 valid plants.
C22_AtMostFivePlants ==
    (Parsed /\ status = 200) => Len(body.plants) <= MaxRecommendations

\* C23: every result of a successful run has a description that is a
\* non-empty string, also for a document whose description is present but
\* empty, whitespace-only or no string.
C23_DescriptionNonEmpty ==
    (Parsed /\ status = 200) =>
        /\ isinstance_str(body.description)
        /\ strip(body.description.s) # <<>>

Named(entry) ==
    isinstance_str(entry) \/ (isinstance_dict(entry) /\ entry.name.t # "missing")

NameOf(entry) == IF isinstance_str(entry) THEN entry ELSE entry.name

\* The names of the entries that have one, in the order of the entries.
NamesIn(entries) ==
    LET named == SelectSeq(entries, Named)
    IN [i \in 1..Len(named) |-> NameOf(named[i])]

EntriesOf(value) == IF isinstance_list(value) THEN value.items ELSE <<>>

\* A list of plant objects whose names are strings.
Enhanced(value) ==
    /\ isinstance_list(value)
    /\ \A i \in 1..Len(value.items) :
           isinstance_dict(value.items[i]) /\ isinstance_str(value.items[i].name)

\* C24: extract_plant_names returns, in the order of the input, the string
\* items and the "name" values of the dict items with a "name" key and skips
\* the rest; None and [] give []; a list of plant objects gives what the
\* list of their names gives; every element returned is a string.
C24_NamesExtracted ==
    (pc = "extracted" /\ (plants_data = Null \/ isinstance_list(plants_data))) =>
        /\ plant_names.ok
        /\ plant_names.v = Array(NamesIn(EntriesOf(plants_data)))
        /\ Enhanced(plants_data) =>
               plant_names = extract_plant_names(Array(NamesIn(plants_data.items)))
        /\ \A i \in 1..Len(plant_names.v.items) : isinstance_str(plant_names.v.items[i])

\* C25: normalize_user_data_for_community returns, in the order of the input,
\* one entry for each user that is a dict with a "plants" key, users with an
\* empty plant list included; the entry has the user's other fields and the
\* extracted names as plants, and the users given are not modified.
C25_UsersNormalized ==
    (pc = "normalized" /\ isinstance_list(users_given)) =>
        LET kept == SelectSeq(users_given.items, has_plants) IN
        /\ normalized_users.ok
        /\ Len(normalized_users.v.items) = Len(kept)
        /\ \A i \in 1..Len(kept) :
               /\ normalized_users.v.items[i].name = kept[i].name
               /\ extract_plant_names(kept[i].plants).ok
               /\ normalized_users.v.items[i].plants = extract_plant_names(kept[i].plants).v
        /\ users_data = users_given

\* The parsed document is an object without "description" or without "plants".
LacksField ==
    /\ ParsedJson
    /\ isinstance_dict(response.text.doc)
    /\ (response.text.doc.description.t = "missing" \/ response.text.doc.plants.t = "missing")

DefaultDescription == JStr(<<"L","o","c","a","t","i","o","n"," ","a","n","a","l","y","s","i","s"," ","c","o","m","p","l","e","t","e","d"," ","w","i","t","h"," ","l","i","m","i","t","e","d"," ","d","e","t","a","i","l","s"," ","a","v","a","i","l","a","b","l","e",".">>)

\* A plants list the validator accepts as it is: one plant at least, every
\* plant well formed and without a whitespace-only required string.
ValidPlants(plants) ==
    /\ isinstance_list(plants)
    /\ Len(plants.items) >= 1
    /\ \A i \in 1..Len(plants.items) :
           WellFormedPlant(plants.items[i]) /\ NoBlankField(plants.items[i])

\* C26: for a parsed object without "description" or without "plants" the
\* run succeeds: a missing description becomes the fixed default, missing or
\* non-list plants become the fallback triple, and a field that is present
\* and valid is returned unchanged.
C26_DefaultsInPlace ==
    LacksField =>
        LET doc == response.text.doc IN
        /\ status = 200
        /\ doc.description.t = "missing" =>
               body.description = DefaultDescription /\ DefaultDescription.s # <<>>
        /\ (doc.plants.t = "missing" \/ ~isinstance_list(doc.plants)) =>
               /\ NamesOf(body.plants) = FallbackNames
               /\ ConfidencesOf(body.plants) = FallbackConfidences
        /\ (isinstance_str(doc.description) /\ doc.description.s # <<>>) =>
               body.description = doc.description
        /\ ValidPlants(doc.plants) =>
               /\ Len(body.plants) = Len(doc.plants.items)
               /\ \A i \in 1..Len(body.plants) : SamePlant(body.plants[i], doc.plants.items[i])

\* C26 witness: a document without description whose plants are two valid
\* plants has been processed.
C26_Witness ==
    /\ LacksField
    /\ response.text.doc.description.t = "missing"
    /\ response.text.doc.plants = Array(<<GoodFern, GoodIvy>>)

\* The structured entries of a plants list, in their order.
StructuredOf(plants) == SelectSeq(plants.items, isinstance_dict)

\* The parsed document is an object whose plants list has a structured entry.
HasStructuredEntry ==
    /\ ParsedJson
    /\ isinstance_dict(response.text.doc)
    /\ isinstance_list(response.text.doc.plants)
    /\ StructuredOf(response.text.doc.plants) # <<>>

\* C27: for a plants list with at least one structured entry, the result's
\* plants are the structured entries of the list, validated, in their
\* order: the other entries are dropped, no structured entry is dropped and
\* no fallback plant is added.
C27_StructuredKept ==
    HasStructuredEntry =>
        LET structured == StructuredOf(response.text.doc.plants) IN
        /\ Len(body.plants) = Len(structured)
        /\ \A i \in 1..Len(structured) :
               body.plants[i] = _validate_comprehensive_plant_data(structured[i]).plant

\* C28: after the validation of a structured plant record, image, AR_model
\* and superimposed_image are present and are strings, the empty string when
\* the value given was missing or no string.
C28_OptionalStrings ==
    (ValidatedDict /\ ~validated.raised) =>
        \A i \in 1..3 :
            /\ isinstance_str(OptionalOf(validated.plant)[i])
            /\ ~isinstance_str(OptionalOf(plant)[i]) =>
                   OptionalOf(validated.plant)[i] = JStr(<<>>)

\* C29: for every failure surfaced through a GeminiAPIError, the kind whose
\* content is sent is the kind whose status is sent: Auth content never goes
\* with 429 or 400, Malformed content never goes with 400.
C29_ContentAndStatusAgree ==
    Surfaced => \E kind \in DOMAIN ContentOf : body = ContentOf[kind] /\ status = StatusOf[kind]

\* C30: a reply of /answer with status 200 has no "error" field, whatever
\* the upstream document, one with top-level keys of its own such as "error"
\* included; the field is on failure replies only.
C30_NoErrorOnSuccess ==
    (pc = "responded" /\ status = 200) => body.error.t = "missing"

====
